---------------------------- MODULE Spec2Model ----------------------------
(***************************************************************************)
(* A model of the real-time audio turn-taking engine of ai_loan_calling:   *)
(* AudioBuffer (the silence gate), generate_ai_response (the dialogue      *)
(* service), ConversationHandler (the call session), the call_data         *)
(* registry and websocket_handler (the turn orchestrator).                 *)
(*                                                                         *)
(* Units.  Wall-clock time (time.time()) is counted in tenths of a second. *)
(* Audio is modelled byte for byte; to keep buffers small the sample rate  *)
(* is scaled from 22050 samples/s to SAMPLE_RATE samples/s, every size     *)
(* threshold being computed from SAMPLE_RATE by the source's own formula.  *)
(* Text is a sequence of Unicode code points.                              *)
(*                                                                         *)
(* Specifications.                                                         *)
(*   SpecGate   one AudioBuffer fed frame by frame as the clock advances.  *)
(*   SpecReply  one call of generate_ai_response, remote call by remote    *)
(*              call.                                                      *)
(*   Spec       the server with the two webhooks and one connection.       *)
(*   SpecPair   two connections on two answered calls, no webhook.         *)
(*   SpecLive   one connection on two answered calls and their completed   *)
(*              events, with weak fairness of the worker's steps that end  *)
(*              by themselves.                                             *)
(*   SpecRegistry  one answer webhook, one completed event and one         *)
(*              attaching connection for the same call id, statement by    *)
(*              statement.                                                 *)
(*   SpecRetry  one call of a collaborator function, remote call by remote *)
(*              call.                                                      *)
(*   SpecEvents two deliveries of the completed event of one call id, one  *)
(*              statement by statement and one as a single step.           *)
(* In Spec, SpecPair and SpecLive the clock stands still, so an utterance  *)
(* ends through the size limit of add_chunk; the silence hold is           *)
(* SpecGate's matter.  The webhooks are single steps there;                *)
(* websocket_handler is split at every collaborator call, channel          *)
(* operation and access to the shared ConversationHandler.                 *)
(***************************************************************************)
EXTENDS Integers, Sequences, FiniteSets, TLC

(***************************************************************************)
(* Bounds of the model.                                                    *)
(***************************************************************************)
\* config.py:56 sets 22050; the model scales the rate (see Units above).
SAMPLE_RATE == 5
\* Frames fed to one AudioBuffer between two get_audio calls (SpecGate).
MaxFed == 4
\* Last wall-clock instant (tenths of a second) at which a frame is fed.
MaxTime == 18

(***************************************************************************)
(* Program constants.                                                      *)
(***************************************************************************)
silence_threshold == 300
\* silence_duration = 1.2 s, in tenths of a second
silence_duration == 12
\* min_speech_duration = 0.6 s, in tenths of a second
min_speech_duration == 6
\* "8 seconds max"
max_seconds == 8
\* the value None of silence_start
None == -1

VARIABLES
    gate,        \* SpecGate: the AudioBuffer under test
    gnow,        \* SpecGate: time.time() at the last add_chunk
    fed,         \* SpecGate: <<[chunk, t]>> passed to add_chunk since the last get_audio
    ret,         \* SpecGate: what the last call did: "fresh", "true", "false", "taken"
    g_audio_data,\* SpecGate: the bytes the last get_audio returned
    gemini_client, \* whether the module-level Gemini client was initialised
    g_language,  \* SpecReply: generate_ai_response's language argument
    g_user_text, \* SpecReply: generate_ai_response's user_text argument
    g_attempt,   \* SpecReply: the retry loop's attempt
    g_outs,      \* SpecReply: what each remote call so far did
    g_result,    \* SpecReply: "pending", or how the call ended and its value
    call_data,   \* call_uuid -> the registered handler (an index of handlers), 0: none
    handlers,    \* every ConversationHandler object created so far
    greeting_cache, \* flask_app.greeting_cache: call_uuid -> audio
    wk,          \* connection -> the locals of its websocket_handler
    sent,        \* connection -> the audio written to it
    nmsgs,       \* messages received so far
    call_sessions, \* the session records the database accepted
    ans,         \* SpecRegistry: the locals of the answer_webhook request
    evt,         \* SpecRegistry: the locals of the event_webhook request
    lk,          \* SpecRegistry: the locals of the attaching websocket_handler
    retry        \* SpecRetry: the collaborator call in progress

gate_vars == <<gate, gnow, fed, ret, g_audio_data>>
reply_vars == <<g_language, g_user_text, g_attempt, g_outs, g_result>>
main_vars == <<call_data, handlers, greeting_cache, wk, sent, nmsgs, call_sessions>>
reg_vars == <<ans, evt, lk>>
aux_vars == <<reg_vars, retry>>
vars == <<gate_vars, gemini_client, reply_vars, main_vars, aux_vars>>

(***************************************************************************)
(* Helpers on sequences.                                                   *)
(***************************************************************************)
RECURSIVE SumSeq(_)
SumSeq(s) == IF s = <<>> THEN 0 ELSE Head(s) + SumSeq(Tail(s))

RECURSIVE Concat(_)
Concat(ss) == IF ss = <<>> THEN <<>> ELSE Head(ss) \o Concat(Tail(ss))

Abs(n) == IF n < 0 THEN -n ELSE n

(***************************************************************************)
(* AudioBuffer                                                             *)
(***************************************************************************)
\* struct.unpack(f'{len(chunk)//2}h', chunk): little-endian signed 16-bit
\* samples; the call raises struct.error when len(chunk) is odd.
unpack_ok_lenient(audio_chunk) == TRUE

unpack_ok(audio_chunk) == Len(audio_chunk) % 2 = 0

unpack(audio_chunk) ==
    [i \in 1..(Len(audio_chunk) \div 2) |->
        LET u == audio_chunk[2 * i - 1] + 256 * audio_chunk[2 * i]
        IN  IF u >= 32768 THEN u - 65536 ELSE u]

\* rms = sum(abs(s) for s in samples) / len(samples) if samples else 0,
\* and 0 when unpack raised; "rms >= silence_threshold" without the division.
rms_reaches_threshold(audio_chunk) ==
    /\ unpack_ok(audio_chunk)
    /\ LET samples == unpack(audio_chunk)
       IN  /\ Len(samples) > 0
           /\ SumSeq([i \in 1..Len(samples) |-> Abs(samples[i])])
                  >= silence_threshold * Len(samples)

\* int(self.sample_rate * 2 * self.min_speech_duration)
min_buffer_size == (SAMPLE_RATE * 2 * min_speech_duration) \div 10

\* settings.SAMPLE_RATE * 2 * 8
max_buffer_size == SAMPLE_RATE * 2 * max_seconds

\* AudioBuffer.__init__
NewAudioBuffer(current_time) ==
    [buffer |-> <<>>, silence_start |-> None, speech_detected |-> FALSE,
     last_chunk_time |-> current_time]

\* if rms >= self.silence_threshold: speech_detected = True; silence_start = None
speech_started_keeping_timer(self) == [self EXCEPT !.speech_detected = TRUE]

speech_started(self) ==
    [self EXCEPT !.speech_detected = TRUE, !.silence_start = None]

\* current_time - self.silence_start >= self.silence_duration
hold_reached_strict(current_time, start) == current_time - start > silence_duration

hold_reached(current_time, start) == current_time - start >= silence_duration

\* if self.buffer.tell() > min_buffer_size
long_enough(size) == size > min_buffer_size

\* if self.buffer.tell() > max_buffer_size: if self.speech_detected: return True
forced_flush_without_speech(size, speech) == size > max_buffer_size

forced_flush_never(size, speech) == FALSE

forced_flush(size, speech) == size > max_buffer_size /\ speech

\* AudioBuffer.add_chunk: the new object state and the returned boolean
add_chunk_after_speech(self, audio_chunk, current_time) ==
    LET loud == rms_reaches_threshold(audio_chunk)
    IN  IF self.speech_detected \/ loud
        THEN [self |-> speech_started([self EXCEPT !.buffer = self.buffer \o audio_chunk]),
              result |-> forced_flush(Len(self.buffer) + Len(audio_chunk), TRUE)]
        ELSE [self |-> [self EXCEPT !.last_chunk_time = current_time],
              result |-> FALSE]

add_chunk(self, audio_chunk, current_time) ==
    LET written == [self EXCEPT !.buffer = self.buffer \o audio_chunk]
        loud    == rms_reaches_threshold(audio_chunk)
        s1      == IF loud THEN speech_started(written) ELSE written
        silent  == s1.speech_detected /\ ~loud
        s2      == IF silent /\ s1.silence_start = None
                   THEN [s1 EXCEPT !.silence_start = current_time]
                   ELSE s1
        by_hold == /\ silent
                   /\ s1.silence_start # None
                   /\ hold_reached(current_time, s1.silence_start)
                   /\ long_enough(Len(s2.buffer))
        by_size == forced_flush(Len(s2.buffer), s2.speech_detected)
    IN  IF by_hold \/ by_size
        THEN [self |-> s2, result |-> TRUE]
        ELSE [self |-> [s2 EXCEPT !.last_chunk_time = current_time],
              result |-> FALSE]

\* AudioBuffer.get_audio: the new object state and the returned bytes
get_audio_keeping_speech(self) ==
    [self |-> [self EXCEPT !.buffer = <<>>, !.silence_start = None],
     result |-> self.buffer]

get_audio(self) ==
    [self |-> [self EXCEPT !.buffer = <<>>, !.silence_start = None,
                           !.speech_detected = FALSE],
     result |-> self.buffer]

\* a buffer nobody feeds (the gate's state in the other specifications)
GateIdle ==
    /\ gate = NewAudioBuffer(0)
    /\ gnow = 0
    /\ fed = <<>>
    /\ ret = "fresh"
    /\ g_audio_data = <<>>

(***************************************************************************)
(* Text: str methods on sequences of code points.                          *)
(***************************************************************************)
\* the characters str.strip() removes
Whitespace == {9, 10, 11, 12, 13, 28, 29, 30, 31, 32, 133, 160}

RECURSIVE lstrip(_)
lstrip(s) == IF s # <<>> /\ Head(s) \in Whitespace THEN lstrip(Tail(s)) ELSE s

RECURSIVE rstrip(_)
rstrip(s) ==
    IF s # <<>> /\ s[Len(s)] \in Whitespace
    THEN rstrip(SubSeq(s, 1, Len(s) - 1))
    ELSE s

strip(s) == rstrip(lstrip(s))

\* str.lower() on the letters A-Z (the other code points of the model's
\* texts have no lower-case form)
lower(s) == [i \in 1..Len(s) |-> IF s[i] \in 65..90 THEN s[i] + 32 ELSE s[i]]

endswith(s, suffix) ==
    /\ Len(s) >= Len(suffix)
    /\ SubSeq(s, Len(s) - Len(suffix) + 1, Len(s)) = suffix

\* FALLBACKS["en-IN"]
FallbackEn ==
    <<73, 39, 109, 32, 115, 111, 114, 114, 121, 44, 32, 73, 39, 109, 32,
       104, 97, 118, 105, 110, 103, 32, 97, 32, 98, 105, 116, 32, 111, 102,
       32, 116, 114, 111, 117, 98, 108, 101, 32, 104, 101, 97, 114, 105, 110,
       103, 32, 121, 111, 117, 32, 99, 108, 101, 97, 114, 108, 121, 46, 32,
       67, 111, 117, 108, 100, 32, 121, 111, 117, 32, 112, 108, 101, 97, 115,
       101, 32, 114, 101, 112, 101, 97, 116, 32, 116, 104, 97, 116, 63>>

\* FALLBACKS["hi-IN"]
FallbackHi ==
    <<2325, 2381, 2359, 2350, 2366, 32, 2325, 2352, 2375, 2306, 44, 32,
       2350, 2369, 2333, 2375, 32, 2310, 2346, 2325, 2368, 32, 2348, 2366,
       2340, 32, 2360, 2369, 2344, 2344, 2375, 32, 2350, 2375, 2306, 32,
       2341, 2379, 2337, 2364, 2368, 32, 2325, 2336, 2367, 2344, 2366, 2312,
       32, 2361, 2379, 32, 2352, 2361, 2368, 32, 2361, 2376, 2404, 32, 2325,
       2381, 2351, 2366, 32, 2310, 2346, 32, 2325, 2371, 2346, 2351, 2366,
       32, 2313, 2360, 2375, 32, 2347, 2367, 2352, 32, 2360, 2375, 32, 2342,
       2379, 2361, 2352, 2366, 32, 2360, 2325, 2340, 2375, 32, 2361, 2376,
       2306, 63>>

\* FALLBACKS["ta-IN"]
FallbackTa ==
    <<2990, 2985, 3021, 2985, 3007, 2965, 3021, 2965, 2997, 3009, 2990,
       3021, 44, 32, 2953, 2969, 3021, 2965, 2995, 3021, 32, 2986, 3015,
       2970, 3021, 2970, 3016, 2965, 3021, 32, 2965, 3015, 2975, 3021, 2986,
       2980, 3007, 2994, 3021, 32, 2958, 2985, 2965, 3021, 2965, 3009, 32,
       2970, 2993, 3021, 2993, 3009, 32, 2970, 3007, 2992, 2990, 2990, 3021,
       32, 2953, 2995, 3021, 2995, 2980, 3009, 46, 32, 2980, 2991, 2997,
       3009, 2970, 3014, 2991, 3021, 2980, 3009, 32, 2949, 2980, 3016, 32,
       2990, 3008, 2979, 3021, 2975, 3009, 2990, 3021, 32, 2965, 3010, 2993,
       32, 2990, 3009, 2975, 3007, 2991, 3009, 2990, 3006, 63>>

\* LANGUAGE_CONFIG["en-IN"]["greeting"]
GreetingEn ==
    <<72, 101, 108, 108, 111, 44, 32, 73, 32, 97, 109, 32, 99, 97, 108, 108,
       105, 110, 103, 32, 102, 114, 111, 109, 32, 116, 104, 101, 32, 102,
       105, 110, 97, 110, 99, 101, 32, 97, 103, 101, 110, 99, 121, 32, 114,
       101, 103, 97, 114, 100, 105, 110, 103, 32, 121, 111, 117, 114, 32,
       108, 111, 97, 110, 32, 112, 97, 121, 109, 101, 110, 116, 46, 32, 77,
       97, 121, 32, 73, 32, 107, 110, 111, 119, 32, 121, 111, 117, 114, 32,
       99, 117, 114, 114, 101, 110, 116, 32, 112, 97, 121, 109, 101, 110,
       116, 32, 115, 116, 97, 116, 117, 115, 63>>

\* LANGUAGE_CONFIG["hi-IN"]["greeting"]
GreetingHi ==
    <<2344, 2350, 2360, 2381, 2340, 2375, 44, 32, 2350, 2376, 2306, 32,
       2357, 2367, 2340, 2381, 2340, 32, 2319, 2332, 2375, 2306, 2360, 2368,
       32, 2360, 2375, 32, 2310, 2346, 2325, 2375, 32, 2354, 2379, 2344, 32,
       2349, 2369, 2327, 2340, 2366, 2344, 32, 2325, 2375, 32, 2348, 2366,
       2352, 2375, 32, 2350, 2375, 2306, 32, 2325, 2377, 2354, 32, 2325,
       2352, 32, 2352, 2361, 2368, 32, 2361, 2370, 2306, 2404, 32, 2325,
       2371, 2346, 2351, 2366, 32, 2309, 2346, 2344, 2368, 32, 2357, 2352,
       2381, 2340, 2350, 2366, 2344, 32, 2349, 2369, 2327, 2340, 2366, 2344,
       32, 2360, 2381, 2341, 2367, 2340, 2367, 32, 2348, 2340, 2366, 2319,
       2306, 63>>

\* LANGUAGE_CONFIG["ta-IN"]["greeting"]
GreetingTa ==
    <<2997, 2979, 2965, 3021, 2965, 2990, 3021, 44, 32, 2984, 3006, 2985,
       3021, 32, 2984, 3007, 2980, 3007, 32, 2984, 3007, 2993, 3009, 2997,
       2985, 2980, 3021, 2980, 3007, 2994, 3007, 2992, 3009, 2984, 3021,
       2980, 3009, 32, 2953, 2969, 3021, 2965, 2995, 3021, 32, 2965, 2975,
       2985, 3021, 32, 2970, 3014, 2994, 3009, 2980, 3021, 2980, 3009, 2980,
       2994, 3021, 32, 2986, 2993, 3021, 2993, 3007, 32, 2949, 2996, 3016,
       2965, 3021, 2965, 3007, 2993, 3015, 2985, 3021, 46, 32, 2953, 2969,
       3021, 2965, 2995, 3021, 32, 2980, 2993, 3021, 2986, 3019, 2980, 3016,
       2991, 32, 2965, 2975, 3021, 2975, 2979, 32, 2984, 3007, 2994, 3016,
       2991, 3016, 32, 2980, 2991, 2997, 3009, 2970, 3014, 2991, 3021, 2980,
       3009, 32, 2965, 3010, 2993, 3009, 2969, 3021, 2965, 2995, 3021, 63>>

Languages == {"en-IN", "hi-IN", "ta-IN"}

\* FALLBACKS.get(language, FALLBACKS["en-IN"])
FALLBACKS(language) ==
    IF language = "hi-IN" THEN FallbackHi
    ELSE IF language = "ta-IN" THEN FallbackTa
    ELSE FallbackEn

(***************************************************************************)
(* generate_ai_response                                                    *)
(***************************************************************************)
\* (' and', ' or', ' with', ' to', ' but', ' because', ' for', ' then')
unwanted_endings ==
    << <<32, 97, 110, 100>>, <<32, 111, 114>>, <<32, 119, 105, 116, 104>>,
       <<32, 116, 111>>, <<32, 98, 117, 116>>,
       <<32, 98, 101, 99, 97, 117, 115, 101>>, <<32, 102, 111, 114>>,
       <<32, 116, 104, 101, 110>> >>

\* ('.', '?', '!', the danda, the double danda)
valid_punctuations == {46, 63, 33, 2404, 2405}

\* for ending in unwanted_endings: if ...lower().endswith(ending): strip it
RECURSIVE strip_endings(_, _)
strip_endings(ai_response, i) ==
    IF i > Len(unwanted_endings) THEN ai_response
    ELSE LET ending == unwanted_endings[i]
         IN  IF endswith(lower(ai_response), ending)
             THEN strip_endings(
                      strip(SubSeq(ai_response, 1,
                                   Len(ai_response) - Len(ending))),
                      i + 1)
             ELSE strip_endings(ai_response, i + 1)

\* if ai_response and not ai_response.endswith(valid_punctuations): append
ensure_punctuation(ai_response, language) ==
    IF ai_response # <<>> /\ ai_response[Len(ai_response)] \notin valid_punctuations
    THEN IF language = "hi-IN" THEN ai_response \o <<32, 2404>>
         ELSE ai_response \o <<46>>
    ELSE ai_response

\* lines 592-612: what is returned for the generator's text
postprocess(text, language) ==
    ensure_punctuation(strip_endings(strip(text), 1), language)

\* range(max_retries) of generate_ai_response
gen_max_retries == 3

\* One iteration of the retry loop.  outcome.kind is what the remote call
\* did: "text" (response.text is outcome.text), "none" (response.text is
\* None, so .strip() raises AttributeError), "rate_limit" (an exception
\* whose text holds 429 or RESOURCE_EXHAUSTED), "error" (any other one).
\* The result is the value returned, or "continue" with the next attempt.
gen_iteration(language, attempt, outcome) ==
    IF outcome.kind = "text"
    THEN [kind |-> "return", text |-> postprocess(outcome.text, language)]
    ELSE IF outcome.kind = "rate_limit" /\ attempt < gen_max_retries - 1
    THEN [kind |-> "continue", text |-> <<>>]
    ELSE IF attempt = gen_max_retries - 1
    THEN [kind |-> "return", text |-> FALLBACKS(language)]
    ELSE [kind |-> "continue", text |-> <<>>]

\* lines 503-512: without a client the call goes to generate_hindi_response,
\* generate_tamil_response or generate_english_response, none of which is
\* defined anywhere: NameError.
gen_without_client(user_text, language) ==
    [kind |-> "NameError", text |-> <<>>]

\* generate_ai_response has not returned yet
Pending == [kind |-> "pending", text |-> <<>>]

(***************************************************************************)
(* detect_language                                                         *)
(***************************************************************************)
\* re.search(r'[lo-hi]', text)
re_search(lo, hi, text) == \E i \in 1..Len(text) : text[i] \in lo..hi

detect_language(text) ==
    LET t == strip(text)
    IN  IF re_search(2304, 2431, t) THEN "hi-IN"       \* \u0900-\u097F
        ELSE IF re_search(2944, 3071, t) THEN "ta-IN"  \* \u0B80-\u0BFF
        ELSE "en-IN"

(***************************************************************************)
(* generate_ai_response as a whole: outs[i] is what remote call i does.    *)
(***************************************************************************)
RECURSIVE gen_loop(_, _, _)
gen_loop(language, attempt, outs) ==
    IF attempt >= gen_max_retries \/ attempt >= Len(outs)
    THEN [kind |-> "return", text |-> FALLBACKS(language)]
    ELSE LET r == gen_iteration(language, attempt, outs[attempt + 1])
         IN  IF r.kind = "continue" THEN gen_loop(language, attempt + 1, outs)
             ELSE r

generate_ai_response(client, user_text, language, outs) ==
    IF ~client THEN gen_without_client(user_text, language)
    ELSE gen_loop(language, 0, outs)

(***************************************************************************)
(* transcribe_sarvam and synthesize_sarvam.  A falsy value (None, "", b"") *)
(* is the empty sequence: their callers only test the result's truth.      *)
(***************************************************************************)
SAMPLE_WIDTH == 2

\* max_retries=2 of transcribe_sarvam and of synthesize_sarvam
max_retries == 2

NoText == <<>>
NoAudio == <<>>

\* len(audio_data) < SAMPLE_RATE * SAMPLE_WIDTH * 0.3
too_short_never(audio_data) == FALSE

too_short(audio_data) == Len(audio_data) * 10 < SAMPLE_RATE * SAMPLE_WIDTH * 3

\* outs[i].kind is "ok" (status 200, transcript outs[i].text), or a failure:
\* "status" (another status), "timeout", "error" (any other exception)
\* one iteration of the loop (lines 239-312): the value returned, or
\* "continue" with the next attempt
stt_iteration(attempt, outcome) ==
    IF outcome.kind = "ok" THEN [kind |-> "return", value |-> outcome.text]
    ELSE IF attempt < max_retries - 1
    THEN [kind |-> "continue", value |-> NoText]
    ELSE [kind |-> "return", value |-> NoText]

RECURSIVE stt_loop(_, _)
stt_loop(attempt, outs) ==
    IF attempt >= max_retries \/ attempt >= Len(outs) THEN NoText
    ELSE LET r == stt_iteration(attempt, outs[attempt + 1])
         IN  IF r.kind = "continue" THEN stt_loop(attempt + 1, outs)
             ELSE r.value

transcribe_sarvam(audio_data, language, outs) ==
    IF too_short(audio_data) THEN NoText ELSE stt_loop(0, outs)

\* the audio the remote synthesizer makes of a text
tts_audio(text, language) == <<language, text>>

\* outs[i] is "audio" (status 200 with audio), "no_audio" (status 200 with
\* none), "status", "timeout" or "error"
\* one iteration of the loop (lines 324-397)
tts_iteration(text, language, attempt, outcome) ==
    IF outcome = "audio"
    THEN [kind |-> "return", value |-> tts_audio(text, language)]
    ELSE IF attempt < max_retries - 1
    THEN [kind |-> "continue", value |-> NoAudio]
    ELSE [kind |-> "return", value |-> NoAudio]

RECURSIVE tts_loop(_, _, _, _)
tts_loop(text, language, attempt, outs) ==
    IF attempt >= max_retries \/ attempt >= Len(outs) THEN NoAudio
    ELSE LET r == tts_iteration(text, language, attempt, outs[attempt + 1])
         IN  IF r.kind = "continue"
             THEN tts_loop(text, language, attempt + 1, outs)
             ELSE r.value

synthesize_sarvam(text, language, outs) ==
    IF text = <<>> THEN NoAudio ELSE tts_loop(text, language, 0, outs)

(***************************************************************************)
(* analyze_conversation_with_gemini.  An analysis is the dict returned,    *)
(* its summary the pieces the string is made of.                           *)
(***************************************************************************)
\* lines 106-113: the dict returned without a client
AnalysisSkipped ==
    [summary |-> <<"AI analysis not available - Gemini API not configured">>,
     sentiment |-> "Neutral", sentiment_reasoning |-> "Analysis skipped",
     intent |-> "No Response", intent_reasoning |-> "Analysis skipped",
     payment_date |-> "None"]

\* lines 203-208: f"Raw analysis result: {response_text[:100]}..."; the
\* texts of the model are shorter than 100 characters
RawAnalysis(response_text) ==
    [summary |-> <<"Raw analysis result: ", response_text, "...">>,
     sentiment |-> "Neutral", intent |-> "No Response",
     error |-> "JSON parsing error"]

\* lines 211-219
AnalysisError_unclassified(error_str) ==
    [summary |-> <<"Unable to analyze conversation - API or parsing error">>,
     sentiment |-> "Neutral", sentiment_reasoning |-> "Error in analysis",
     intent |-> "Unknown", intent_reasoning |-> "Error in analysis",
     payment_date |-> "None", error |-> error_str]

AnalysisError(error_str) ==
    [summary |-> <<"Unable to analyze conversation - API or parsing error">>,
     sentiment |-> "Neutral", sentiment_reasoning |-> "Error in analysis",
     intent |-> "No Response", intent_reasoning |-> "Error in analysis",
     payment_date |-> "None", error |-> error_str]

\* lines 221-225: the dict returned after the loop
AnalysisFailed ==
    [summary |-> <<"Analysis failed after internal retries">>,
     sentiment |-> "Neutral", intent |-> "No Response"]

\* range(max_retries) of analyze_conversation_with_gemini
analyze_max_retries == 5

\* One iteration of the retry loop (lines 156-219).  outcome.kind is what
\* the remote call did: "json" (response.text parses to the dict
\* outcome.value), "unparsed" (response.text is outcome.text, and json.loads
\* or the .get of a value that is no dict raises), "none" (response.text
\* is None, so .strip() raises), "rate_limit" (an exception whose text holds
\* 429 or RESOURCE_EXHAUSTED), "error" (any other one).  response_text is
\* the local of that name, <<>> while it is unassigned; outcome.text is
\* the text left when the code fences are removed.
analyze_iteration_raising(attempt, outcome, response_text) ==
    LET text == IF outcome.kind \in {"json", "unparsed"}
                THEN <<outcome.text>> ELSE response_text
    IN  IF outcome.kind = "json"
        THEN [kind |-> "return", value |-> outcome.value, response_text |-> text]
        ELSE IF outcome.kind = "rate_limit" /\ attempt < analyze_max_retries - 1
        THEN [kind |-> "continue", value |-> <<>>, response_text |-> text]
        ELSE IF attempt = analyze_max_retries - 1
        THEN [kind |-> "raise", value |-> <<>>, response_text |-> text]
        ELSE [kind |-> "continue", value |-> <<>>, response_text |-> text]

analyze_iteration(attempt, outcome, response_text) ==
    LET text == IF outcome.kind \in {"json", "unparsed"}
                THEN <<outcome.text>> ELSE response_text
    IN  IF outcome.kind = "json"
        THEN [kind |-> "return", value |-> outcome.value, response_text |-> text]
        ELSE IF outcome.kind = "rate_limit" /\ attempt < analyze_max_retries - 1
        THEN [kind |-> "continue", value |-> <<>>, response_text |-> text]
        ELSE IF attempt = analyze_max_retries - 1
        THEN [kind |-> "return",
              value |-> IF text # <<>> THEN RawAnalysis(text[1])
                        ELSE AnalysisError(outcome.kind),
              response_text |-> text]
        ELSE [kind |-> "continue", value |-> <<>>, response_text |-> text]

\* the loop: outs[i] is what remote call i does; attempts counts the
\* remote calls made
RECURSIVE analyze_loop(_, _, _)
analyze_loop(attempt, outs, response_text) ==
    IF attempt >= analyze_max_retries \/ attempt >= Len(outs)
    THEN [kind |-> "return", value |-> AnalysisFailed, attempts |-> attempt]
    ELSE LET r == analyze_iteration(attempt, outs[attempt + 1], response_text)
         IN  IF r.kind = "continue"
             THEN analyze_loop(attempt + 1, outs, r.response_text)
             ELSE [kind |-> r.kind, value |-> r.value, attempts |-> attempt + 1]

analyze_conversation_with_gemini(client, conversation, outs) ==
    IF ~client
    THEN [kind |-> "return", value |-> AnalysisSkipped, attempts |-> 0]
    ELSE analyze_loop(0, outs, <<>>)

(***************************************************************************)
(* ConversationHandler                                                     *)
(***************************************************************************)
\* settings.LANGUAGE_CONFIG[language]["greeting"]
greeting(language) ==
    IF language = "hi-IN" THEN GreetingHi
    ELSE IF language = "ta-IN" THEN GreetingTa
    ELSE GreetingEn

\* ConversationHandler.__init__; saved counts the save_transcript calls
NewHandler(call_uuid, preferred_language) ==
    [call_uuid |-> call_uuid,
     conversation |-> <<>>,
     is_active |-> TRUE,
     preferred_language |-> preferred_language,
     current_language |-> preferred_language,
     language_history |-> <<>>,
     saved |-> 0]

add_entry_nothing(self, speaker, text, current_time) == self

add_entry_restarting(self, speaker, text, current_time) ==
    [self EXCEPT !.conversation =
        <<[speaker |-> speaker, text |-> text, timestamp |-> current_time,
           language |-> self.current_language]>>]

add_entry(self, speaker, text, current_time) ==
    [self EXCEPT !.conversation =
        Append(@, [speaker |-> speaker, text |-> text,
                   timestamp |-> current_time,
                   language |-> self.current_language])]

\* update_language, statement by statement: the test,
language_differs(self, detected_language) ==
    detected_language # self.current_language

\* the append to language_history,
append_switch(self, detected_language, current_time) ==
    [self EXCEPT !.language_history =
        Append(@, [from |-> self.current_language, to |-> detected_language,
                   timestamp |-> current_time])]

\* and the assignment
assign_language(self, detected_language) ==
    [self EXCEPT !.current_language = detected_language]

\* lines 686-693: the analysis of a transcript too short to analyze
InsufficientData ==
    [summary |-> <<"No meaningful conversation detected">>,
     sentiment |-> "No Response", sentiment_reasoning |-> "Insufficient data",
     intent |-> "No Response",
     intent_reasoning |-> "Call ended without engagement",
     payment_date |-> "None"]

\* lines 699-710; the three times are left out, the clock stands still
transcript_data(self, ai_analysis) ==
    [call_uuid |-> self.call_uuid,
     preferred_language |-> self.preferred_language,
     final_language |-> self.current_language,
     language_switches |-> Len(self.language_history),
     language_history |-> self.language_history,
     conversation |-> self.conversation,
     ai_analysis |-> ai_analysis]

\* save_transcript.  The analysis is remote only for more than one entry
\* (outs: what the remote calls do).  No file is written; the record goes
\* to db.insert_call_session inside a try whose except swallows every
\* exception: inserted tells whether the database took it.  The result
\* holds the handler, the records stored, the local ai_analysis and the
\* remote calls made.
save_transcript_always_remote(self, client, outs, inserted) ==
    LET a == analyze_conversation_with_gemini(client, self.conversation, outs)
    IN  [self |-> [self EXCEPT !.saved = @ + 1],
         stored |-> IF inserted THEN <<transcript_data(self, a.value)>> ELSE <<>>,
         ai_analysis |-> a.value,
         remote_calls |-> a.attempts]

save_transcript(self, client, outs, inserted) ==
    LET a == IF Len(self.conversation) > 1
             THEN analyze_conversation_with_gemini(client, self.conversation, outs)
             ELSE [kind |-> "return", value |-> InsufficientData, attempts |-> 0]
    IN  [self |-> [self EXCEPT !.saved = @ + 1],
         stored |-> IF inserted THEN <<transcript_data(self, a.value)>> ELSE <<>>,
         ai_analysis |-> a.value,
         remote_calls |-> a.attempts]

(***************************************************************************)
(* websocket_handler's locals                                              *)
(***************************************************************************)
NoExit == [kind |-> "", error |-> ""]

\* the turn in progress: handler.current_language as line 263 read it, and
\* what the turn has appended to conversation and to language_history
NewTurn == [old_language |-> "", entries |-> <<>>, switches |-> <<>>]

NewWorker ==
    [pc |-> "start", call_uuid |-> "", handler |-> 0,
     audio_buffer |-> NewAudioBuffer(0), audio_data |-> <<>>,
     transcript |-> NoText, detected_lang |-> "", ai_response |-> <<>>,
     audio_response |-> NoAudio, exit |-> NoExit, turn |-> NewTurn,
     audio_chunks_received |-> 0]

\* The calls are named in the order of their first answer webhook and the
\* connections in the order in which they are opened.
CallIds == {"call-a", "call-b"}
Workers == {"w1", "w2"}

EarlierCalls(u) == IF u = "call-b" THEN {"call-a"} ELSE {}
EarlierWorkers(w) == IF w = "w2" THEN {"w1"} ELSE {}

\* no call, no connection: the state of the server in SpecGate and SpecReply
MainIdle ==
    /\ call_data = [u \in CallIds |-> 0]
    /\ handlers = <<>>
    /\ greeting_cache = [u \in CallIds |-> NoAudio]
    /\ wk = [w \in Workers |-> NewWorker]
    /\ sent = [w \in Workers |-> <<>>]
    /\ nmsgs = 0
    /\ call_sessions = <<>>

(***************************************************************************)
(* The locals of the requests of SpecRegistry and of the call of SpecRetry *)
(***************************************************************************)
\* answer_webhook before its first statement
NewAnswer == [pc |-> "start", handler |-> 0, greeting_audio |-> NoAudio]

\* event_webhook before its first statement; remote_calls counts the
\* requests its save_transcript sent to the analysis collaborator
NewEvent == [pc |-> "start", handler |-> 0, ai_analysis |-> <<>>,
             remote_calls |-> 0, error |-> ""]

\* websocket_handler before line 195; result is "" until it has a handler
\* ("session"), returns at line 198 ("absent") or raises
NewLookup == [pc |-> "start", handler |-> 0, result |-> ""]

\* no collaborator call in progress.  fn is the function called, pc
\* "call" before its first statement, "loop" at the head of its retry loop
\* and "done" when it has returned or raised; outs is what each remote call
\* so far did, response_text the local of analyze_conversation_with_gemini
NoRetry == [fn |-> "", language |-> "en-IN", audio_data |-> <<>>, text |-> <<>>,
            pc |-> "call", attempt |-> 0,
            outs |-> <<>>, response_text |-> <<>>,
            result |-> [kind |-> "pending", value |-> <<>>]]

RegIdle ==
    /\ ans = NewAnswer
    /\ evt = NewEvent
    /\ lk = NewLookup

RetryIdle == retry = NoRetry

AuxIdle == RegIdle /\ RetryIdle

(***************************************************************************)
(* SpecReply: one call of generate_ai_response, one remote call at a time. *)
(***************************************************************************)
\* Tokens the generator's text is made of, at most MaxTokens of them.
MaxTokens == 3

ReplyTokens ==
    { <<111, 107>>,      \* "ok"
      <<32, 111, 114>>,  \* " or"
      <<32, 84, 79>>,    \* " TO"
      <<32>>,            \* " "
      <<46>>,            \* "."
      <<2404>> }         \* the danda

RECURSIVE TokenTexts(_)
TokenTexts(n) ==
    IF n = 0 THEN {<<>>}
    ELSE LET shorter == TokenTexts(n - 1)
         IN  shorter \cup {t \o tok : t \in shorter, tok \in ReplyTokens}

ReplyOutcomes ==
    {[kind |-> "text", text |-> t] : t \in TokenTexts(MaxTokens)}
    \cup {[kind |-> k, text |-> <<>>] : k \in {"none", "rate_limit", "error"}}

\* "fr-FR" stands for a code outside LANGUAGE_CONFIG
ReplyLanguages == Languages \cup {"fr-FR"}

ReplyIdle ==
    /\ g_language = "en-IN"
    /\ g_user_text = <<>>
    /\ g_attempt = 0
    /\ g_outs = <<>>
    /\ g_result = Pending

ReplyInit ==
    /\ gemini_client \in BOOLEAN
    /\ g_language \in ReplyLanguages
    /\ g_user_text \in {<<>>, <<121, 101, 115>>}
    /\ g_attempt = 0
    /\ g_outs = <<>>
    /\ g_result = Pending
    /\ GateIdle
    /\ MainIdle
    /\ AuxIdle

\* if not gemini_client: ...
GenNoClient ==
    /\ g_result = Pending
    /\ ~gemini_client
    /\ g_result' = gen_without_client(g_user_text, g_language)
    /\ UNCHANGED <<g_language, g_user_text, g_attempt, g_outs>>
    /\ UNCHANGED <<gate_vars, gemini_client, main_vars, aux_vars>>

\* one pass of "for attempt in range(max_retries)"
GenRemote(outcome) ==
    /\ g_result = Pending
    /\ gemini_client
    /\ g_attempt < gen_max_retries
    /\ LET r == gen_iteration(g_language, g_attempt, outcome)
       IN  /\ g_result' = IF r.kind = "continue" THEN Pending ELSE r
           /\ g_attempt' = IF r.kind = "continue" THEN g_attempt + 1 ELSE g_attempt
    /\ g_outs' = Append(g_outs, outcome.kind)
    /\ UNCHANGED <<g_language, g_user_text>>
    /\ UNCHANGED <<gate_vars, gemini_client, main_vars, aux_vars>>

ReplyNext ==
    \/ GenNoClient
    \/ \E outcome \in ReplyOutcomes : GenRemote(outcome)

SpecReply == ReplyInit /\ [][ReplyNext]_vars

(***************************************************************************)
(* SpecGate: one AudioBuffer driven the way websocket_handler drives it:   *)
(* add_chunk per frame, get_audio right after a True return.               *)
(***************************************************************************)
Samples(n, lo, hi) == [i \in 1..n |-> IF i % 2 = 1 THEN lo ELSE hi]

EmptyChunk == <<>>
\* odd byte count; its first two bytes would decode to 1024
OddChunk   == <<0, 4, 0>>
\* one sample of amplitude 20
QuietChunk == <<20, 0>>
\* min_buffer_size bytes (rounded down to whole samples) of amplitude -300,
\* the threshold itself
LoudChunk  == Samples(2 * (min_buffer_size \div 2), 212, 254)
\* two bytes short of max_buffer_size, amplitude 1024 / amplitude 0
BigLoudChunk  == Samples(max_buffer_size - 2, 0, 4)
BigQuietChunk == Samples(max_buffer_size - 2, 0, 0)
\* a loud frame that is by itself longer than the size limit
UtteranceChunk == Samples(max_buffer_size + 2, 0, 4)

GateChunks == {EmptyChunk, OddChunk, QuietChunk, LoudChunk,
               BigLoudChunk, BigQuietChunk}

\* wall-clock time between two consecutive frames
GateDelays == {0, silence_duration \div 2, silence_duration}

GateInit ==
    /\ gate = NewAudioBuffer(0)
    /\ gnow = 0
    /\ fed = <<>>
    /\ ret = "fresh"
    /\ g_audio_data = <<>>
    /\ gemini_client = TRUE
    /\ ReplyIdle
    /\ MainIdle
    /\ AuxIdle

GateAddChunk(audio_chunk, dt) ==
    /\ ret # "true"
    /\ gnow + dt <= MaxTime
    /\ LET log == IF ret = "taken" THEN <<>> ELSE fed
           r   == add_chunk(gate, audio_chunk, gnow + dt)
       IN  /\ Len(log) < MaxFed
           /\ gate' = r.self
           /\ ret' = IF r.result THEN "true" ELSE "false"
           /\ fed' = Append(log, [chunk |-> audio_chunk, t |-> gnow + dt])
    /\ gnow' = gnow + dt
    /\ g_audio_data' = <<>>
    /\ UNCHANGED <<gemini_client, reply_vars, main_vars, aux_vars>>

GateGetAudio ==
    /\ ret = "true"
    /\ LET r == get_audio(gate)
       IN  /\ gate' = r.self
           /\ g_audio_data' = r.result
    /\ ret' = "taken"
    /\ UNCHANGED <<gnow, fed>>
    /\ UNCHANGED <<gemini_client, reply_vars, main_vars, aux_vars>>

GateNext ==
    \/ \E audio_chunk \in GateChunks, dt \in GateDelays :
           GateAddChunk(audio_chunk, dt)
    \/ GateGetAudio

SpecGate == GateInit /\ [][GateNext]_vars

(***************************************************************************)
(* Spec: the server.  Calls are answered and completed through the         *)
(* webhooks, and each worker is one connection to /socket/<call_uuid>,     *)
(* running websocket_handler one statement group at a time.                *)
(***************************************************************************)
\* handler objects ever created
MaxHandlers == 2
\* messages received over all connections
MaxMsgs == 2

\* flask_app.run(..., threaded=True): every request has its own thread
threaded_off == FALSE

threaded == TRUE

\* the connections being served
InProgress == {w \in Workers : wk[w].pc \notin {"start", "closed"}}

\* without threads the server serves one request at a time
CanRun(request) == threaded \/ InProgress \subseteq {request}

Unchanged_others ==
    UNCHANGED <<gate, gnow, fed, ret, g_audio_data, gemini_client, reply_vars,
                call_sessions, aux_vars>>

\* preferred_language as sent with the answer webhook
AnswerLanguages == {"en-IN", "fr-FR"}

\* answer_webhook, lines 69-71: an unknown code becomes en-IN
coerce_language_never(preferred_language) == preferred_language

coerce_language(preferred_language) ==
    IF preferred_language \notin Languages THEN "en-IN" ELSE preferred_language

\* what the remote calls of one synthesize_sarvam do
TtsRuns == {<<"audio">>, <<"timeout", "audio">>, <<"status", "error">>,
            <<"no_audio", "no_audio">>}

\* answer_webhook (lines 60-146), as one step
Answer(u, lang, outs) ==
    /\ Len(handlers) < MaxHandlers
    /\ \A e \in EarlierCalls(u) :
            \E i \in 1..Len(handlers) : handlers[i].call_uuid = e
    /\ CanRun("webhook")
    /\ LET preferred_language == coerce_language(lang)
           handler == NewHandler(u, preferred_language)
           greeting_audio == synthesize_sarvam(greeting(preferred_language),
                                                preferred_language, outs)
       IN  /\ handlers' = Append(handlers,
                add_entry(handler, "AI", greeting(preferred_language), gnow))
           /\ call_data' = [call_data EXCEPT ![u] = Len(handlers) + 1]
           /\ greeting_cache' = IF greeting_audio # NoAudio
                                THEN [greeting_cache EXCEPT ![u] = greeting_audio]
                                ELSE greeting_cache
    /\ UNCHANGED <<wk, sent, nmsgs>>
    /\ Unchanged_others

\* a dict the analysis collaborator answers with
WillPay ==
    [summary |-> <<"The borrower will pay.">>,
     sentiment |-> "Positive", sentiment_reasoning |-> "cooperative",
     intent |-> "Will Pay", intent_reasoning |-> "committed to a date",
     payment_date |-> "2025-01-31"]

AnalysisJson == [kind |-> "json", text |-> "{...}", value |-> WillPay]
AnalysisUnparsed == [kind |-> "unparsed", text |-> "Sure!", value |-> <<>>]
AnalysisRaises(kind) == [kind |-> kind, text |-> "", value |-> <<>>]

\* what the remote calls of one analyze_conversation_with_gemini do
AnalyzeRuns ==
    { <<AnalysisJson>>,
      <<AnalysisUnparsed, AnalysisRaises("error"), AnalysisRaises("error"),
        AnalysisRaises("none"), AnalysisRaises("rate_limit")>> }

\* event_webhook with status completed for a registered call (lines
\* 162-183), as one step
Completed(u, outs, inserted) ==
    /\ CanRun("webhook")
    /\ call_data[u] # 0
    /\ LET handler == [handlers[call_data[u]] EXCEPT !.is_active = FALSE]
           saved == save_transcript(handler, gemini_client, outs, inserted)
       IN  /\ handlers' = [handlers EXCEPT ![call_data[u]] = saved.self]
           /\ call_sessions' = call_sessions \o saved.stored
    /\ call_data' = [call_data EXCEPT ![u] = 0]
    /\ greeting_cache' = [greeting_cache EXCEPT ![u] = NoAudio]
    /\ UNCHANGED <<wk, sent, nmsgs>>
    /\ UNCHANGED <<gate, gnow, fed, ret, g_audio_data, gemini_client, reply_vars,
                   aux_vars>>

\* the worker of connection w ends: by a return or a break (error "") or
\* by an exception
Closed(worker, kind, error) ==
    [worker EXCEPT !.pc = "closed", !.exit = [kind |-> kind, error |-> error]]

\* what this step appended to a list
Appended(old, new) == SubSeq(new, Len(old) + 1, Len(new))

\* websocket_handler, the membership test (lines 195-198)
WsConnect_untested(w, u) ==
    /\ wk[w].pc = "start"
    /\ \A e \in EarlierWorkers(w) : wk[e].pc # "start"
    /\ CanRun(w)
    /\ wk' = [wk EXCEPT ![w].pc = "lookup", ![w].call_uuid = u]
    /\ UNCHANGED <<call_data, handlers, greeting_cache,
                   sent, nmsgs>>
    /\ Unchanged_others

WsConnect(w, u) ==
    /\ wk[w].pc = "start"
    /\ \A e \in EarlierWorkers(w) : wk[e].pc # "start"
    /\ CanRun(w)
    /\ wk' = [wk EXCEPT ![w] =
                IF call_data[u] = 0
                THEN Closed([@ EXCEPT !.call_uuid = u], "unknown_call", "")
                ELSE [@ EXCEPT !.pc = "lookup", !.call_uuid = u]]
    /\ UNCHANGED <<call_data, handlers, greeting_cache,
                   sent, nmsgs>>
    /\ Unchanged_others

\* handler = call_data[call_uuid]; audio_buffer = AudioBuffer() (200-206);
\* the fetch is outside the try
WsLookup(w) ==
    /\ wk[w].pc = "lookup"
    /\ CanRun(w)
    /\ wk' = [wk EXCEPT ![w] =
                IF call_data[@.call_uuid] = 0
                THEN Closed(@, "lookup", "KeyError")
                ELSE [@ EXCEPT !.pc = "greet",
                               !.handler = call_data[wk[w].call_uuid],
                               !.audio_buffer = NewAudioBuffer(gnow)]]
    /\ UNCHANGED <<call_data, handlers, greeting_cache,
                   sent, nmsgs>>
    /\ Unchanged_others

\* the greeting audio: cached, or synthesized on the fly (lines 212-231)
WsGreet(w, outs) ==
    /\ wk[w].pc = "greet"
    /\ CanRun(w)
    /\ LET language == handlers[wk[w].handler].current_language
           greeting_audio ==
               IF greeting_cache[wk[w].call_uuid] # NoAudio
               THEN greeting_cache[wk[w].call_uuid]
               ELSE synthesize_sarvam(greeting(language), language, outs)
       IN  wk' = [wk EXCEPT ![w].audio_response = greeting_audio,
                            ![w].pc = IF greeting_audio # NoAudio
                                      THEN "greet_send" ELSE "recv"]
    /\ UNCHANGED <<call_data, handlers, greeting_cache,
                   sent, nmsgs>>
    /\ Unchanged_others

\* ws.send(greeting_audio) (lines 218, 227): the audio is written, or the
\* connection turns out to be closed and send raises
WsGreetSend(w, written) ==
    /\ wk[w].pc = "greet_send"
    /\ CanRun(w)
    /\ IF written
       THEN /\ sent' = [sent EXCEPT ![w] = Append(@, wk[w].audio_response)]
            /\ wk' = [wk EXCEPT ![w].pc = "recv", ![w].audio_response = NoAudio]
       ELSE /\ sent' = sent
            /\ wk' = [wk EXCEPT ![w] = Closed(@, "transport", "ConnectionClosed")]
    /\ UNCHANGED <<call_data, handlers, greeting_cache,
                   nmsgs>>
    /\ Unchanged_others

\* the textual messages the model sends, and json.loads and data.get of
\* each: a decode error, a value without .get, or the event
StartText == "{\"event\": \"start\"}"
StopText == "{\"event\": \"stop\"}"
OtherEventText == "{\"event\": \"websocket:dtmf\"}"
NotJsonText == "hello"
NotObjectText == "[1]"
NoEventText == "{\"type\": \"x\"}"

ControlTexts ==
    {StartText, StopText, OtherEventText, NotJsonText, NotObjectText, NoEventText}

json_event(message) ==
    IF message = NotJsonText THEN [error |-> "JSONDecodeError", event |-> ""]
    ELSE IF message = NotObjectText THEN [error |-> "AttributeError", event |-> ""]
    ELSE IF message = StartText THEN [error |-> "", event |-> "start"]
    ELSE IF message = StopText THEN [error |-> "", event |-> "stop"]
    ELSE IF message = NoEventText THEN [error |-> "", event |-> "None"]
    ELSE [error |-> "", event |-> "websocket:dtmf"]

\* the audio frames the model sends
WsChunks == {QuietChunk, UtteranceChunk}

\* ws.receive() finds the connection closed: the loop ends (lines 235-240)
WsReceiveClosed(w) ==
    /\ wk[w].pc = "recv"
    /\ CanRun(w)
    /\ wk' = [wk EXCEPT ![w] = Closed(@, "closed", "")]
    /\ UNCHANGED <<call_data, handlers, greeting_cache,
                   sent, nmsgs>>
    /\ Unchanged_others

\* a binary message: add_chunk, and get_audio when it returns True
\* (lines 244-253)
WsReceiveBytes(w, message) ==
    /\ wk[w].pc = "recv"
    /\ CanRun(w)
    /\ nmsgs < MaxMsgs
    /\ nmsgs' = nmsgs + 1
    /\ LET r == add_chunk(wk[w].audio_buffer, message, gnow)
           taken == get_audio(r.self)
       IN  wk' = [wk EXCEPT ![w] =
                IF r.result
                THEN [@ EXCEPT !.pc = "transcribe",
                               !.audio_chunks_received = @ + 1,
                               !.audio_buffer = taken.self,
                               !.audio_data = taken.result,
                               !.turn = NewTurn]
                ELSE [@ EXCEPT !.audio_chunks_received = @ + 1,
                               !.audio_buffer = r.self]]
    /\ UNCHANGED <<call_data, handlers, greeting_cache,
                   sent>>
    /\ Unchanged_others

\* a textual message (lines 300-317)
WsReceiveText(w, message) ==
    /\ wk[w].pc = "recv"
    /\ CanRun(w)
    /\ nmsgs < MaxMsgs
    /\ nmsgs' = nmsgs + 1
    /\ LET data == json_event(message)
       IN  wk' = [wk EXCEPT ![w] =
                IF data.error = "JSONDecodeError" THEN @
                ELSE IF data.error # "" THEN Closed(@, "control", data.error)
                ELSE IF data.event = "stop" THEN Closed(@, "stop", "")
                ELSE @]
    /\ UNCHANGED <<call_data, handlers, greeting_cache,
                   sent>>
    /\ Unchanged_others

\* the transcripts the remote recognizer gives: "yes", a Hindi word, nothing
YesText == <<121, 101, 115>>
HaanText == <<2361, 2366, 2305>>

SttRuns ==
    {<<[kind |-> "ok", text |-> YesText]>>,
     <<[kind |-> "timeout", text |-> NoText], [kind |-> "ok", text |-> HaanText]>>,
     <<[kind |-> "ok", text |-> NoText]>>,
     <<[kind |-> "status", text |-> NoText], [kind |-> "error", text |-> NoText]>>}

\* what the remote calls of one generate_ai_response do
GenRuns ==
    {<<[kind |-> "text", text |-> <<111, 107>>]>>,
     <<[kind |-> "rate_limit", text |-> <<>>], [kind |-> "text", text |-> <<32>>]>>,
     <<[kind |-> "error", text |-> <<>>], [kind |-> "none", text |-> <<>>],
       [kind |-> "rate_limit", text |-> <<>>]>>}

\* the end of a loop iteration: the iteration's locals are dead
Idle(worker) ==
    [worker EXCEPT !.pc = "recv", !.audio_data = <<>>, !.transcript = NoText,
                   !.detected_lang = "", !.ai_response = <<>>,
                   !.audio_response = NoAudio, !.turn = NewTurn]

\* transcript = transcribe_sarvam(audio_data, handler.current_language)
\* (lines 256-258, 292-293)
WsTranscribe_replying(w, outs) ==
    /\ wk[w].pc = "transcribe"
    /\ CanRun(w)
    /\ wk' = [wk EXCEPT ![w].pc = "detect",
                        ![w].transcript =
                            transcribe_sarvam(wk[w].audio_data,
                                handlers[wk[w].handler].current_language, outs)]
    /\ UNCHANGED <<call_data, handlers, greeting_cache,
                   sent, nmsgs>>
    /\ Unchanged_others

WsTranscribe(w, outs) ==
    /\ wk[w].pc = "transcribe"
    /\ CanRun(w)
    /\ LET transcript ==
               transcribe_sarvam(wk[w].audio_data,
                                 handlers[wk[w].handler].current_language, outs)
       IN  wk' = [wk EXCEPT ![w] =
                IF transcript # NoText
                THEN [@ EXCEPT !.pc = "detect", !.transcript = transcript]
                ELSE Idle(@)]
    /\ UNCHANGED <<call_data, handlers, greeting_cache,
                   sent, nmsgs>>
    /\ Unchanged_others

\* detected_lang = detect_language(transcript) and the comparison with
\* handler.current_language (lines 260-263)
WsDetect(w) ==
    /\ wk[w].pc = "detect"
    /\ CanRun(w)
    /\ LET detected_lang == detect_language(wk[w].transcript)
           handler == handlers[wk[w].handler]
       IN  wk' = [wk EXCEPT ![w].detected_lang = detected_lang,
                            ![w].turn.old_language = handler.current_language,
                            ![w].pc = IF detected_lang # handler.current_language
                                      THEN "update_test" ELSE "add_user"]
    /\ UNCHANGED <<call_data, handlers, greeting_cache,
                   sent, nmsgs>>
    /\ Unchanged_others

\* update_language: if detected_language != self.current_language (663)
WsUpdateTest(w) ==
    /\ wk[w].pc = "update_test"
    /\ CanRun(w)
    /\ wk' = [wk EXCEPT ![w].pc =
                IF language_differs(handlers[wk[w].handler], wk[w].detected_lang)
                THEN "update_append" ELSE "add_user"]
    /\ UNCHANGED <<call_data, handlers, greeting_cache,
                   sent, nmsgs>>
    /\ Unchanged_others

\* update_language: self.language_history.append(...) (668-672)
WsUpdateAppend(w) ==
    /\ wk[w].pc = "update_append"
    /\ CanRun(w)
    /\ handlers' = [handlers EXCEPT ![wk[w].handler] =
                        append_switch(@, wk[w].detected_lang, gnow)]
    /\ wk' = [wk EXCEPT ![w].pc = "update_assign",
                        ![w].turn.switches =
                            @ \o Appended(handlers[wk[w].handler].language_history,
                                          handlers'[wk[w].handler].language_history)]
    /\ UNCHANGED <<call_data, greeting_cache,
                   sent, nmsgs>>
    /\ Unchanged_others

\* update_language: self.current_language = detected_language (674)
WsUpdateAssign(w) ==
    /\ wk[w].pc = "update_assign"
    /\ CanRun(w)
    /\ handlers' = [handlers EXCEPT ![wk[w].handler] =
                        assign_language(@, wk[w].detected_lang)]
    /\ wk' = [wk EXCEPT ![w].pc = "add_user"]
    /\ UNCHANGED <<call_data, greeting_cache,
                   sent, nmsgs>>
    /\ Unchanged_others

\* handler.add_entry("User", transcript) (line 267)
WsAddUser(w) ==
    /\ wk[w].pc = "add_user"
    /\ CanRun(w)
    /\ handlers' = [handlers EXCEPT ![wk[w].handler] =
                        add_entry(@, "User", wk[w].transcript, gnow)]
    /\ wk' = [wk EXCEPT ![w].pc = "generate",
                        ![w].turn.entries =
                            @ \o Appended(handlers[wk[w].handler].conversation,
                                          handlers'[wk[w].handler].conversation)]
    /\ UNCHANGED <<call_data, greeting_cache,
                   sent, nmsgs>>
    /\ Unchanged_others

\* ai_response = generate_ai_response(...) (lines 270-274); an exception
\* leaves the loop through the except of line 321
WsGenerate(w, outs) ==
    /\ wk[w].pc = "generate"
    /\ CanRun(w)
    /\ LET r == generate_ai_response(gemini_client, wk[w].transcript,
                    handlers[wk[w].handler].current_language, outs)
       IN  wk' = [wk EXCEPT ![w] =
                IF r.kind = "return"
                THEN [@ EXCEPT !.pc = "add_ai", !.ai_response = r.text]
                ELSE Closed(@, "collaborator", r.kind)]
    /\ UNCHANGED <<call_data, handlers, greeting_cache,
                   sent, nmsgs>>
    /\ Unchanged_others

\* handler.add_entry("AI", ai_response) (line 277)
WsAddAI(w) ==
    /\ wk[w].pc = "add_ai"
    /\ CanRun(w)
    /\ handlers' = [handlers EXCEPT ![wk[w].handler] =
                        add_entry(@, "AI", wk[w].ai_response, gnow)]
    /\ wk' = [wk EXCEPT ![w].pc = "synthesize",
                        ![w].turn.entries =
                            @ \o Appended(handlers[wk[w].handler].conversation,
                                          handlers'[wk[w].handler].conversation)]
    /\ UNCHANGED <<call_data, greeting_cache,
                   sent, nmsgs>>
    /\ Unchanged_others

\* audio_response = synthesize_sarvam(ai_response, handler.current_language)
\* (lines 280-285, 290-291)
WsSynthesize_closing(w, outs) ==
    /\ wk[w].pc = "synthesize"
    /\ CanRun(w)
    /\ LET audio_response ==
               synthesize_sarvam(wk[w].ai_response,
                                 handlers[wk[w].handler].current_language, outs)
       IN  wk' = [wk EXCEPT ![w] =
                IF audio_response # NoAudio
                THEN [@ EXCEPT !.pc = "send", !.audio_response = audio_response]
                ELSE Closed(@, "collaborator", "synthesis")]
    /\ UNCHANGED <<call_data, handlers, greeting_cache,
                   sent, nmsgs>>
    /\ Unchanged_others

WsSynthesize(w, outs) ==
    /\ wk[w].pc = "synthesize"
    /\ CanRun(w)
    /\ LET audio_response ==
               synthesize_sarvam(wk[w].ai_response,
                                 handlers[wk[w].handler].current_language, outs)
       IN  wk' = [wk EXCEPT ![w] =
                IF audio_response # NoAudio
                THEN [@ EXCEPT !.pc = "send", !.audio_response = audio_response]
                ELSE Idle(@)]
    /\ UNCHANGED <<call_data, handlers, greeting_cache,
                   sent, nmsgs>>
    /\ Unchanged_others

\* ws.send(audio_response) (line 288): written, or send raises
WsSend(w, written) ==
    /\ wk[w].pc = "send"
    /\ CanRun(w)
    /\ IF written
       THEN /\ sent' = [sent EXCEPT ![w] = Append(@, wk[w].audio_response)]
            /\ wk' = [wk EXCEPT ![w] = Idle(@)]
       ELSE /\ sent' = sent
            /\ wk' = [wk EXCEPT ![w] = Closed(@, "transport", "ConnectionClosed")]
    /\ UNCHANGED <<call_data, handlers, greeting_cache,
                   nmsgs>>
    /\ Unchanged_others

Init ==
    /\ gemini_client \in BOOLEAN
    /\ MainIdle
    /\ GateIdle
    /\ ReplyIdle
    /\ AuxIdle

\* one step of the websocket_handler of connection w
WsNext(w) ==
    \/ \E u \in CallIds : WsConnect(w, u)
    \/ WsLookup(w)
    \/ \E outs \in TtsRuns : WsGreet(w, outs)
    \/ \E written \in BOOLEAN : WsGreetSend(w, written)
    \/ WsReceiveClosed(w)
    \/ \E message \in WsChunks : WsReceiveBytes(w, message)
    \/ \E message \in ControlTexts : WsReceiveText(w, message)
    \/ \E outs \in SttRuns : WsTranscribe(w, outs)
    \/ WsDetect(w)
    \/ WsUpdateTest(w)
    \/ WsUpdateAppend(w)
    \/ WsUpdateAssign(w)
    \/ WsAddUser(w)
    \/ \E outs \in GenRuns : WsGenerate(w, outs)
    \/ WsAddAI(w)
    \/ \E outs \in TtsRuns : WsSynthesize(w, outs)
    \/ \E written \in BOOLEAN : WsSend(w, written)

\* Spec: the webhooks and one connection
Next ==
    \/ \E u \in CallIds, lang \in AnswerLanguages, outs \in TtsRuns :
            Answer(u, lang, outs)
    \/ \E u \in CallIds, outs \in AnalyzeRuns, inserted \in BOOLEAN :
            Completed(u, outs, inserted)
    \/ WsNext("w1")

Spec == Init /\ [][Next]_vars

(***************************************************************************)
(* SpecPair: two connections and no webhook.  Both calls have been         *)
(* answered, in English and with their greeting audio cached; each         *)
(* connection attaches to either call.                                     *)
(***************************************************************************)
AnsweredHandler(u) == add_entry(NewHandler(u, "en-IN"), "AI", greeting("en-IN"), 0)

PairInit ==
    /\ gemini_client \in BOOLEAN
    /\ call_data = [u \in CallIds |-> IF u = "call-a" THEN 1 ELSE 2]
    /\ handlers = <<AnsweredHandler("call-a"), AnsweredHandler("call-b")>>
    /\ greeting_cache =
            [u \in CallIds |-> synthesize_sarvam(greeting("en-IN"), "en-IN", <<"audio">>)]
    /\ wk = [w \in Workers |-> NewWorker]
    /\ sent = [w \in Workers |-> <<>>]
    /\ nmsgs = 0
    /\ call_sessions = <<>>
    /\ GateIdle
    /\ ReplyIdle
    /\ AuxIdle

PairNext == \E w \in Workers : WsNext(w)

SpecPair == PairInit /\ [][PairNext]_vars

(***************************************************************************)
(* SpecLive: one connection and the completed events of the two calls,     *)
(* both answered as in SpecPair, with the fairness the code gives: a step  *)
(* of the worker that ends by itself is taken.                             *)
(***************************************************************************)
\* The steps of connection w that end by themselves: the local statements,
\* the channel writes, and the remote calls made with timeout=10, which
\* are the requests.post of transcribe_sarvam (line 277) and of
\* synthesize_sarvam (line 354).  generate_content is called without any
\* timeout (lines 582-589) and ws.receive() waits for the peer, so neither
\* is among them; without a client generate_ai_response calls nothing
\* remote.
WsBounded(w) ==
    \/ WsLookup(w)
    \/ \E outs \in TtsRuns : WsGreet(w, outs)
    \/ \E written \in BOOLEAN : WsGreetSend(w, written)
    \/ \E outs \in SttRuns : WsTranscribe(w, outs)
    \/ WsDetect(w)
    \/ WsUpdateTest(w)
    \/ WsUpdateAppend(w)
    \/ WsUpdateAssign(w)
    \/ WsAddUser(w)
    \/ (~gemini_client /\ \E outs \in GenRuns : WsGenerate(w, outs))
    \/ WsAddAI(w)
    \/ \E outs \in TtsRuns : WsSynthesize(w, outs)
    \/ \E written \in BOOLEAN : WsSend(w, written)

LiveNext ==
    \/ \E u \in CallIds, outs \in AnalyzeRuns, inserted \in BOOLEAN :
            Completed(u, outs, inserted)
    \/ WsNext("w1")

SpecLive == PairInit /\ [][LiveNext]_vars /\ WF_vars(WsBounded("w1"))

(***************************************************************************)
(* SpecRegistry: one answer_webhook, one event_webhook with status         *)
(* completed and one attaching websocket_handler, all for the call         *)
(* RegCall, each in a thread of its own (threaded=True) and taken one      *)
(* statement at a time.  The call is unknown at first, or was answered     *)
(* before.                                                                 *)
(***************************************************************************)
RegCall == "call-a"

\* the handlers of the calls answered before
RegPrior ==
    { <<>>,
      <<AnsweredHandler(RegCall)>>,
      <<add_entry(AnsweredHandler(RegCall), "User", <<121, 101, 115>>, 0)>> }

RegInit ==
    /\ gemini_client \in BOOLEAN
    /\ handlers \in RegPrior
    /\ call_data = [u \in CallIds |-> IF u = RegCall THEN Len(handlers) ELSE 0]
    /\ greeting_cache =
            [u \in CallIds |->
                IF u = RegCall /\ handlers # <<>>
                THEN synthesize_sarvam(greeting("en-IN"), "en-IN", <<"audio">>)
                ELSE NoAudio]
    /\ wk = [w \in Workers |-> NewWorker]
    /\ sent = [w \in Workers |-> <<>>]
    /\ nmsgs = 0
    /\ call_sessions = <<>>
    /\ RegIdle
    /\ RetryIdle
    /\ GateIdle
    /\ ReplyIdle

Unchanged_outside_registry ==
    UNCHANGED <<gate_vars, gemini_client, reply_vars, wk, sent, nmsgs, retry>>

\* answer_webhook, lines 84-85: the handler is made and registered
AnsCreate(lang) ==
    /\ ans.pc = "start"
    /\ handlers' = Append(handlers, NewHandler(RegCall, coerce_language(lang)))
    /\ call_data' = [call_data EXCEPT ![RegCall] = Len(handlers) + 1]
    /\ ans' = [ans EXCEPT !.pc = "log", !.handler = Len(handlers) + 1]
    /\ UNCHANGED <<greeting_cache, call_sessions, evt, lk>>
    /\ Unchanged_outside_registry

\* line 92: handler.add_entry("AI", greeting)
AnsLog ==
    /\ ans.pc = "log"
    /\ handlers' = [handlers EXCEPT ![ans.handler] =
            add_entry(@, "AI", greeting(@.preferred_language), gnow)]
    /\ ans' = [ans EXCEPT !.pc = "tts"]
    /\ UNCHANGED <<call_data, greeting_cache, call_sessions, evt, lk>>
    /\ Unchanged_outside_registry

\* line 110: greeting_audio = synthesize_sarvam(greeting, preferred_language)
AnsSynthesize(outs) ==
    /\ ans.pc = "tts"
    /\ LET preferred_language == handlers[ans.handler].preferred_language
       IN  ans' = [ans EXCEPT !.pc = "cache",
                     !.greeting_audio =
                        synthesize_sarvam(greeting(preferred_language),
                                          preferred_language, outs)]
    /\ UNCHANGED <<call_data, handlers, greeting_cache, call_sessions, evt, lk>>
    /\ Unchanged_outside_registry

\* lines 134-139: the greeting audio is cached, and the NCCO returned
AnsCache ==
    /\ ans.pc = "cache"
    /\ greeting_cache' = IF ans.greeting_audio # NoAudio
                         THEN [greeting_cache EXCEPT ![RegCall] = ans.greeting_audio]
                         ELSE greeting_cache
    /\ ans' = [ans EXCEPT !.pc = "done"]
    /\ UNCHANGED <<call_data, handlers, call_sessions, evt, lk>>
    /\ Unchanged_outside_registry

\* event_webhook, line 168: call_uuid in call_data
EvTest ==
    /\ evt.pc = "start"
    /\ evt' = [evt EXCEPT !.pc = IF call_data[RegCall] # 0 THEN "fetch" ELSE "done"]
    /\ UNCHANGED <<call_data, handlers, greeting_cache, call_sessions, ans, lk>>
    /\ Unchanged_outside_registry

\* line 169: handler = call_data[call_uuid]
EvFetch ==
    /\ evt.pc = "fetch"
    /\ evt' = IF call_data[RegCall] # 0
              THEN [evt EXCEPT !.pc = "deactivate", !.handler = call_data[RegCall]]
              ELSE [evt EXCEPT !.pc = "done", !.error = "KeyError"]
    /\ UNCHANGED <<call_data, handlers, greeting_cache, call_sessions, ans, lk>>
    /\ Unchanged_outside_registry

\* line 170: handler.is_active = False
EvDeactivate ==
    /\ evt.pc = "deactivate"
    /\ handlers' = [handlers EXCEPT ![evt.handler].is_active = FALSE]
    /\ evt' = [evt EXCEPT !.pc = "save"]
    /\ UNCHANGED <<call_data, greeting_cache, call_sessions, ans, lk>>
    /\ Unchanged_outside_registry

\* line 171: handler.save_transcript()
EvSave(outs, inserted) ==
    /\ evt.pc = "save"
    /\ LET saved == save_transcript(handlers[evt.handler], gemini_client,
                                    outs, inserted)
       IN  /\ handlers' = [handlers EXCEPT ![evt.handler] = saved.self]
           /\ call_sessions' = call_sessions \o saved.stored
           /\ evt' = [evt EXCEPT !.pc = "del",
                         !.ai_analysis = saved.ai_analysis,
                         !.remote_calls = saved.remote_calls]
    /\ UNCHANGED <<call_data, greeting_cache, ans, lk>>
    /\ Unchanged_outside_registry

\* line 177: del call_data[call_uuid]
EvDel ==
    /\ evt.pc = "del"
    /\ call_data' = [call_data EXCEPT ![RegCall] = 0]
    /\ evt' = IF call_data[RegCall] # 0
              THEN [evt EXCEPT !.pc = "uncache"]
              ELSE [evt EXCEPT !.pc = "done", !.error = "KeyError"]
    /\ UNCHANGED <<handlers, greeting_cache, call_sessions, ans, lk>>
    /\ Unchanged_outside_registry

\* lines 180-181: the cached greeting, if any, is deleted
EvUncache ==
    /\ evt.pc = "uncache"
    /\ greeting_cache' = [greeting_cache EXCEPT ![RegCall] = NoAudio]
    /\ evt' = [evt EXCEPT !.pc = "done"]
    /\ UNCHANGED <<call_data, handlers, call_sessions, ans, lk>>
    /\ Unchanged_outside_registry

\* websocket_handler, lines 195-198: call_uuid not in call_data: return
LkTest ==
    /\ lk.pc = "start"
    /\ lk' = IF call_data[RegCall] = 0
             THEN [lk EXCEPT !.pc = "done", !.result = "absent"]
             ELSE [lk EXCEPT !.pc = "fetch"]
    /\ UNCHANGED <<call_data, handlers, greeting_cache, call_sessions, ans, evt>>
    /\ Unchanged_outside_registry

\* line 200, outside the try: handler = call_data[call_uuid]
LkFetch ==
    /\ lk.pc = "fetch"
    /\ lk' = IF call_data[RegCall] # 0
             THEN [lk EXCEPT !.pc = "done", !.result = "session",
                             !.handler = call_data[RegCall]]
             ELSE [lk EXCEPT !.pc = "done", !.result = "KeyError"]
    /\ UNCHANGED <<call_data, handlers, greeting_cache, call_sessions, ans, evt>>
    /\ Unchanged_outside_registry

RegNext ==
    \/ \E lang \in AnswerLanguages : AnsCreate(lang)
    \/ AnsLog
    \/ \E outs \in TtsRuns : AnsSynthesize(outs)
    \/ AnsCache
    \/ EvTest
    \/ EvFetch
    \/ EvDeactivate
    \/ \E outs \in AnalyzeRuns, inserted \in BOOLEAN : EvSave(outs, inserted)
    \/ EvDel
    \/ EvUncache
    \/ LkTest
    \/ LkFetch

SpecRegistry == RegInit /\ [][RegNext]_vars

(***************************************************************************)
(* SpecRetry: one call of transcribe_sarvam, synthesize_sarvam,            *)
(* generate_ai_response or analyze_conversation_with_gemini, one remote    *)
(* call at a time.                                                         *)
(***************************************************************************)
RetryFns == {"transcribe", "synthesize", "generateReply", "analyze"}

\* "status" is a status other than 200 (400 for a bad input, 401 for a bad
\* key, ...), "error" an exception that is no timeout
SttOutcomes ==
    {[kind |-> "ok", text |-> <<121, 101, 115>>], [kind |-> "ok", text |-> <<>>]}
    \cup {[kind |-> k, text |-> <<>>] : k \in {"status", "timeout", "error"}}

TtsOutcomes == {"audio", "no_audio", "status", "timeout", "error"}

GenOutcomes ==
    {[kind |-> "text", text |-> <<111, 107>>]}
    \cup {[kind |-> k, text |-> <<>>] : k \in {"none", "rate_limit", "error"}}

AnalyzeOutcomes ==
    {AnalysisJson, AnalysisUnparsed}
    \cup {AnalysisRaises(k) : k \in {"none", "rate_limit", "error"}}

\* the frames and the text the calls are made with
RetryAudio == {QuietChunk, UtteranceChunk}
RetryTexts == {<<>>, <<111, 107>>}

RetryInit ==
    /\ gemini_client \in BOOLEAN
    /\ retry \in {[NoRetry EXCEPT !.fn = f, !.language = l] :
                        f \in RetryFns, l \in Languages}
    /\ RegIdle
    /\ MainIdle
    /\ GateIdle
    /\ ReplyIdle

Unchanged_outside_retry ==
    UNCHANGED <<gate_vars, gemini_client, reply_vars, main_vars, reg_vars>>

Returned(value) == [kind |-> "return", value |-> value]

\* the statements before the loop: transcribe_sarvam returns None for an
\* audio that is too short (lines 235-237), synthesize_sarvam for no text
\* (lines 319-321); without a client generate_ai_response takes its other
\* branch (lines 503-512) and analyze_conversation_with_gemini returns its
\* fixed dict (lines 104-113)
RetryCall(audio, text) ==
    /\ retry.pc = "call"
    /\ LET early ==
            IF retry.fn = "transcribe"
            THEN IF too_short(audio) THEN Returned(NoText) ELSE Pending
            ELSE IF retry.fn = "synthesize"
            THEN IF text = <<>> THEN Returned(NoAudio) ELSE Pending
            ELSE IF retry.fn = "generateReply"
            THEN IF ~gemini_client
                 THEN [kind |-> gen_without_client(text, retry.language).kind,
                       value |-> <<>>]
                 ELSE Pending
            ELSE IF ~gemini_client THEN Returned(AnalysisSkipped) ELSE Pending
       IN  retry' = IF early.kind = "pending"
                    THEN [retry EXCEPT !.pc = "loop", !.audio_data = audio,
                                       !.text = text]
                    ELSE [retry EXCEPT !.pc = "done", !.audio_data = audio,
                                       !.text = text,
                            !.result = [kind |-> early.kind, value |-> early.value]]
    /\ Unchanged_outside_retry

\* `for attempt in range(bound)` after an iteration that did r: the value
\* it returned, the next attempt, or the statement after the loop
AfterIteration(r, kind, bound, after_loop) ==
    IF r.kind = "continue"
    THEN IF retry.attempt + 1 < bound
         THEN [retry EXCEPT !.attempt = @ + 1, !.outs = Append(@, kind)]
         ELSE [retry EXCEPT !.attempt = @ + 1, !.outs = Append(@, kind),
                            !.pc = "done", !.result = Returned(after_loop)]
    ELSE [retry EXCEPT !.attempt = @ + 1, !.outs = Append(@, kind),
                       !.pc = "done",
                       !.result = [kind |-> r.kind, value |-> r.value]]

\* one remote call of transcribe_sarvam
RetryTranscribe(outcome) ==
    /\ retry.fn = "transcribe" /\ retry.pc = "loop"
    /\ retry' = AfterIteration(stt_iteration(retry.attempt, outcome),
                               outcome.kind, max_retries, NoText)
    /\ Unchanged_outside_retry

\* one remote call of synthesize_sarvam
RetrySynthesize(outcome) ==
    /\ retry.fn = "synthesize" /\ retry.pc = "loop"
    /\ retry' = AfterIteration(
                    tts_iteration(retry.text, retry.language, retry.attempt,
                                  outcome),
                    outcome, max_retries, NoAudio)
    /\ Unchanged_outside_retry

\* one remote call of generate_ai_response
RetryGenerate(outcome) ==
    /\ retry.fn = "generateReply" /\ retry.pc = "loop"
    /\ LET r == gen_iteration(retry.language, retry.attempt, outcome)
       IN  retry' = AfterIteration([kind |-> r.kind, value |-> r.text],
                                   outcome.kind, gen_max_retries,
                                   FALLBACKS(retry.language))
    /\ Unchanged_outside_retry

\* one remote call of analyze_conversation_with_gemini
RetryAnalyze(outcome) ==
    /\ retry.fn = "analyze" /\ retry.pc = "loop"
    /\ LET r == analyze_iteration(retry.attempt, outcome, retry.response_text)
       IN  retry' = [AfterIteration(r, outcome.kind, analyze_max_retries,
                                    AnalysisFailed)
                        EXCEPT !.response_text = r.response_text]
    /\ Unchanged_outside_retry

RetryNext ==
    \/ \E audio \in RetryAudio, text \in RetryTexts : RetryCall(audio, text)
    \/ \E outcome \in SttOutcomes : RetryTranscribe(outcome)
    \/ \E outcome \in TtsOutcomes : RetrySynthesize(outcome)
    \/ \E outcome \in GenOutcomes : RetryGenerate(outcome)
    \/ \E outcome \in AnalyzeOutcomes : RetryAnalyze(outcome)

SpecRetry == RetryInit /\ [][RetryNext]_vars

(***************************************************************************)
(* What SpecGate's log says about the frames fed since the last get_audio. *)
(***************************************************************************)
FedChunks == [i \in 1..Len(fed) |-> fed[i].chunk]
FedBytes == Len(Concat(FedChunks))
FedLoud(i) == rms_reaches_threshold(fed[i].chunk)
\* the last call was add_chunk, and ret is what it returned
Called == ret \in {"true", "false"}
AllQuiet == \A i \in 1..Len(fed) : ~FedLoud(i)
SpeechSeen == \E i \in 1..Len(fed) : FedLoud(i)
\* the number of above-threshold frames the log starts with
LoudPrefix ==
    IF fed = <<>> \/ ~FedLoud(1) THEN 0
    ELSE CHOOSE k \in 1..Len(fed) :
             /\ \A i \in 1..k : FedLoud(i)
             /\ k < Len(fed) => ~FedLoud(k + 1)
\* above-threshold frames holding at least min_speech_duration of audio,
\* then below-threshold frames only
SpeechThenSilence ==
    /\ LoudPrefix >= 1
    /\ \A i \in (LoudPrefix + 1)..Len(fed) : ~FedLoud(i)
    /\ Len(Concat(SubSeq(FedChunks, 1, LoudPrefix))) >= min_buffer_size
\* the last frame fed is a below-threshold frame received at least
\* silence_duration after the first below-threshold frame
HoldCompleted ==
    /\ Len(fed) > LoudPrefix
    /\ fed[Len(fed)].t - fed[LoudPrefix + 1].t >= silence_duration

\* C1: from a fresh or just-reset gate, as long as every frame fed is below
\* the threshold, add_chunk returns False, however much audio accumulates.
C1_SilenceNeverTriggers == (Called /\ AllQuiet) => ret = "false"

\* C1 witness: only silence was fed, for longer than the hold and to more
\* than max_buffer_size bytes, and add_chunk still returned False.
C1_Witness ==
    /\ ret = "false"
    /\ AllQuiet
    /\ FedBytes > max_buffer_size
    /\ fed[Len(fed)].t - fed[1].t >= silence_duration

\* C2 as claimed: for speech of at least min_speech_duration followed by
\* silence, add_chunk returns True at the frame that completes the hold and
\* at no other frame.
C2_TrueExactlyAtHold ==
    (Called /\ SpeechThenSilence) => (ret = "true" <=> HoldCompleted)

\* C2 amended: the same, for sequences that hold at most max_buffer_size
\* bytes in all and whose below-threshold frames are not empty.  (The hold is
\* measured on the wall clock from the first below-threshold frame; after the
\* True return get_audio resets the gate, so by C1 the remaining silence
\* gives no second True.)
C2_TrueExactlyAtHoldWithinMax ==
    (/\ Called
     /\ SpeechThenSilence
     /\ FedBytes <= max_buffer_size
     /\ \A i \in (LoudPrefix + 1)..Len(fed) : fed[i].chunk # <<>>)
    => (ret = "true" <=> HoldCompleted)

\* C2 witness: speech, then silence held for silence_duration, within the
\* size cap: add_chunk returned True.
C2_Witness ==
    /\ ret = "true"
    /\ SpeechThenSilence
    /\ HoldCompleted
    /\ FedBytes <= max_buffer_size
    /\ \A i \in (LoudPrefix + 1)..Len(fed) : fed[i].chunk # <<>>

C4_TakeBufferExact ==
    ret = "taken" =>
        /\ g_audio_data = Concat(FedChunks)
        /\ gate.buffer = <<>>
        /\ gate.speech_detected = FALSE
        /\ gate.silence_start = None

\* C4 witness: a buffer of three frames or more, speech and silence among
\* them, was taken after the hold fired.
C4_Witness ==
    /\ ret = "taken"
    /\ Len(fed) >= 3
    /\ SpeechThenSilence
    /\ HoldCompleted
    /\ g_audio_data # <<>>


(***************************************************************************)
(* Claims about generate_ai_response (SpecReply).                          *)
(***************************************************************************)
AllAttemptsFailed ==
    /\ Len(g_outs) = gen_max_retries
    /\ \A i \in 1..Len(g_outs) : g_outs[i] # "text"

\* C5: generate_ai_response always returns (it never raises) a non-empty
\* string whose last character is an approved terminal punctuation mark,
\* whatever the remote generator does and whether or not the client is
\* configured; when every attempt failed it returns FALLBACKS[language].
C5_ReplyNonEmptyPunctuated ==
    g_result # Pending =>
        /\ g_result.kind = "return"
        /\ g_result.text # <<>>
        /\ g_result.text[Len(g_result.text)] \in valid_punctuations
        /\ AllAttemptsFailed => g_result.text = FALLBACKS(g_language)

(***************************************************************************)
(* Claims about websocket_handler (Spec).                                  *)
(***************************************************************************)
\* transcribe -> generate -> synthesize -> play, with what lies between
PipelinePcs ==
    {"transcribe", "detect", "update_test", "update_append", "update_assign",
     "add_user", "generate", "add_ai", "synthesize", "send"}

\* inside a collaborator call or a channel write
SuspensionPcs ==
    {"greet", "greet_send", "transcribe", "generate", "synthesize", "send"}

Attached(w) == wk[w].pc \notin {"start", "closed"}

\* the ways out of the handler before its receive loop starts
BeforeLoopExits == {"unknown_call", "lookup"}

\* C6: no failure of a collaborator in Transcribing, Generating or
\* Synthesizing (exception, error status, timeout, unavailable client) ends
\* the call loop: a worker leaves its loop only on a transport error, on a
\* closed channel or on an explicit stop.
C6_CollaboratorFailureKeepsLoop ==
    \A w \in Workers :
        (wk[w].pc = "closed" /\ wk[w].exit.kind \notin BeforeLoopExits) =>
            wk[w].exit.kind \in {"transport", "closed", "stop"}

\* C7: in every turn with a transcript, once the language handling of the
\* turn is over (the worker is about to log the user entry): if the detected
\* language differed from the session's current language, the current
\* language is the detected one and the turn appended exactly one switch
\* record {from: old, to: detected}; if they were equal, the turn appended
\* no record.
C7_SwitchExactlyOnce ==
    \A w \in Workers :
        wk[w].pc = "add_user" =>
            LET old == wk[w].turn.old_language
                detected == wk[w].detected_lang
                switches == wk[w].turn.switches
            IN  IF detected # old
                THEN /\ handlers[wk[w].handler].current_language = detected
                     /\ Len(switches) = 1
                     /\ switches[1].from = old
                     /\ switches[1].to = detected
                ELSE switches = <<>>

\* the turn of w appended exactly a User entry with the transcript and then
\* an AI entry with the reply
TurnEntriesRight(w) ==
    LET entries == wk[w].turn.entries
    IN  /\ Len(entries) = 2
        /\ entries[1].speaker = "User"
        /\ entries[1].text = wk[w].transcript
        /\ entries[2].speaker = "AI"
        /\ entries[2].text = wk[w].ai_response

\* C8 as stated: whenever the gate fired, transcribe returned text,
\* generate_ai_response returned text and synthesize returned audio (the
\* worker is at its ws.send), the turn has appended exactly one User entry
\* with the transcript followed by exactly one AI entry with the reply, and
\* its last step writes the reply audio once and leaves the worker Idle.
C8_TurnAppendsAndPlays ==
    [][\A w \in Workers :
        (wk[w].pc = "send" /\ wk'[w] # wk[w]) =>
            /\ TurnEntriesRight(w)
            /\ sent'[w] = Append(sent[w], wk[w].audio_response)
            /\ wk'[w].pc = "recv"]_vars

\* C8, amended: the same, provided the write to the channel does not fail;
\* when it fails nothing is written and the worker leaves its loop.
C8_TurnAppendsAndPlaysIfWritten ==
    [][\A w \in Workers :
        (wk[w].pc = "send" /\ wk'[w] # wk[w]) =>
            /\ TurnEntriesRight(w)
            /\ IF wk'[w].exit.kind = "transport"
               THEN sent'[w] = sent[w] /\ wk'[w].pc = "closed"
               ELSE /\ sent'[w] = Append(sent[w], wk[w].audio_response)
                    /\ wk'[w].pc = "recv"]_vars

\* a worker is Idle again after a turn whose reply it has played
C8_Witness ==
    \E w \in Workers :
        /\ wk[w].pc = "recv"
        /\ LET conversation == handlers[wk[w].handler].conversation
           IN  \E j \in 1..(Len(conversation) - 1) :
                /\ conversation[j].speaker = "User"
                /\ conversation[j + 1].speaker = "AI"
                /\ \E i \in 1..Len(sent[w]) :
                    sent[w][i] = tts_audio(conversation[j + 1].text,
                                           conversation[j + 1].language)

\* C9: for one call, while an utterance is in the transcribe -> generate ->
\* synthesize -> play pipeline, the gate is evaluated for no frame of that
\* call (no AudioBuffer of a worker of the call changes), so at most one
\* utterance of the call is in the pipeline at any time.
C9_PerCallSequencing ==
    [][\A w1, w2 \in Workers :
        (/\ wk[w1].pc \in PipelinePcs
         /\ Attached(w2)
         /\ wk[w2].call_uuid = wk[w1].call_uuid) =>
            wk'[w2].audio_buffer = wk[w2].audio_buffer]_vars

\* the next step of websocket_handler for connection w
WsPipelineStep(w) ==
    \/ WsLookup(w)
    \/ \E outs \in TtsRuns : WsGreet(w, outs)
    \/ WsGreetSend(w, TRUE)
    \/ \E outs \in SttRuns : WsTranscribe(w, outs)
    \/ WsDetect(w)
    \/ WsUpdateTest(w)
    \/ WsUpdateAppend(w)
    \/ WsUpdateAssign(w)
    \/ WsAddUser(w)
    \/ \E outs \in GenRuns : WsGenerate(w, outs)
    \/ WsAddAI(w)
    \/ \E outs \in TtsRuns : WsSynthesize(w, outs)
    \/ WsSend(w, TRUE)

\* C10: with two distinct calls live, while the worker of one is inside a
\* collaborator call or a channel write, however long that lasts, the
\* connection of the other call can start its worker, the worker can receive
\* its next frame and can take the next step of its turn: nothing held by
\* the first blocks it.
C10_NoCrossCallBlocking ==
    \A w1, w2 \in Workers :
        (wk[w1].pc \in SuspensionPcs /\ w2 # w1) =>
            IF wk[w2].pc = "start"
            THEN ENABLED (\E u \in CallIds \ {wk[w1].call_uuid} : WsConnect(w2, u))
            ELSE IF wk[w2].pc = "closed" \/ wk[w2].call_uuid = wk[w1].call_uuid
            THEN TRUE
            ELSE IF wk[w2].pc = "recv"
            THEN nmsgs < MaxMsgs =>
                    ENABLED (\E message \in WsChunks : WsReceiveBytes(w2, message))
            ELSE ENABLED WsPipelineStep(w2)

\* one worker is inside transcribe_sarvam and the worker of another call
\* has meanwhile logged a whole turn and is receiving again
C10_Witness ==
    \E w1, w2 \in Workers :
        /\ wk[w1].pc = "transcribe"
        /\ wk[w2].pc = "recv"
        /\ wk[w2].call_uuid # wk[w1].call_uuid
        /\ Len(handlers[wk[w2].handler].conversation) >= 3
        /\ Len(sent[w2]) >= 1

(***************************************************************************)
(* SpecRegistry: the three requests for one call id                        *)
(***************************************************************************)
\* the three requests have returned
RegAllDone == ans.pc = "done" /\ evt.pc = "done" /\ lk.pc = "done"

\* what they leave behind and what they answered: the handler registered
\* (0: none), whether a greeting is cached, what the lookup got and the
\* handler the event finalized (0: none)
RegOutcome ==
    [reg |-> call_data[RegCall],
     cached |-> greeting_cache[RegCall] # NoAudio,
     lookup |-> [result |-> lk.result, handler |-> lk.handler],
     finalized |-> evt.handler]

\* the same three operations, each as a whole, on such a record; new is
\* the handler the answer makes, audio whether its greeting was synthesized
serial_step(st, op, new, audio) ==
    IF op = "answered"
    THEN [st EXCEPT !.reg = new, !.cached = audio \/ @]
    ELSE IF op = "completed"
    THEN IF st.reg # 0
         THEN [st EXCEPT !.reg = 0, !.cached = FALSE, !.finalized = st.reg]
         ELSE st
    ELSE [st EXCEPT !.lookup =
            IF st.reg # 0 THEN [result |-> "session", handler |-> st.reg]
            ELSE [result |-> "absent", handler |-> 0]]

SerialOrders ==
    {o \in [1..3 -> {"answered", "completed", "lookup"}] :
        \A i, j \in 1..3 : i # j => o[i] # o[j]}

\* the outcomes of the serial executions from the registry the requests
\* found: prior is the handler registered before (0: none)
SerialOutcomes(prior, audio) ==
    LET st0 == [reg |-> prior, cached |-> prior # 0,
                lookup |-> [result |-> "", handler |-> 0], finalized |-> 0]
    IN  { serial_step(serial_step(serial_step(st0, o[1], prior + 1, audio),
                                  o[2], prior + 1, audio),
                      o[3], prior + 1, audio) : o \in SerialOrders }

\* C11: whatever the interleaving of answer_webhook, event_webhook
\* (completed) and the websocket lookup for one call id, the registry, the
\* greeting cache and the results they end with are those of one of the six
\* serial executions of the three; so a call answered and then completed
\* leaves nothing behind.
C11_SameIdSerialized ==
    RegAllDone =>
        RegOutcome \in SerialOutcomes(Len(handlers) - 1,
                                      ans.greeting_audio # NoAudio)

\* C12: a lookup concurrent with the removal of its call id yields the
\* session or absent, never an error: when the fetch of line 200 runs, the
\* id that the test of line 195 found is still registered.
C12_LookupAtomic ==
    /\ lk.result # "KeyError"
    /\ lk.pc = "fetch" => call_data[RegCall] # 0

\* C13: save_transcript on a transcript of fewer than 2 entries sends no
\* request to the analysis collaborator, and its analysis is the fixed
\* insufficient-data record.
C13_ShortTranscriptSkipsAnalysis ==
    [][(evt.pc = "save" /\ evt'.pc = "del"
            /\ Len(handlers[evt.handler].conversation) < 2)
        => (evt'.remote_calls = 0 /\ evt'.ai_analysis = InsufficientData)]_vars

\* a transcript with the greeting alone was saved while a client was
\* configured
C13_Witness ==
    /\ gemini_client
    /\ evt.pc = "del"
    /\ Len(handlers[evt.handler].conversation) = 1
    /\ evt.ai_analysis = InsufficientData
    /\ evt.remote_calls = 0

(***************************************************************************)
(* Spec: the completed event of a call without conversation                *)
(***************************************************************************)
\* C14: the completed event for a registered call whose transcript holds
\* nothing beyond the greeting leaves a persisted session record of that
\* call whose analysis has intent "No Response" and sentiment "No
\* Response", and neither a registry entry nor a cached greeting.
C14_SilentCallFinalized ==
    [][\A u \in CallIds :
        (/\ call_data[u] # 0
         /\ call_data'[u] = 0
         /\ Len(handlers[call_data[u]].conversation) <= 1)
        => /\ Len(call_sessions') = Len(call_sessions) + 1
           /\ LET session == call_sessions'[Len(call_sessions')]
              IN  /\ session.call_uuid = u
                  /\ session.ai_analysis.intent = "No Response"
                  /\ session.ai_analysis.sentiment = "No Response"
           /\ greeting_cache'[u] = NoAudio]_vars

(***************************************************************************)
(* SpecRetry: which failures are retried, and how often                    *)
(***************************************************************************)
\* the failures a further attempt may follow: a timeout, a rate limit
Transient == {"timeout", "rate_limit"}

\* the last remote call made
LastOutcome == retry.outs[Len(retry.outs)]

\* C15: transcribe, synthesize and generateReply make a further remote
\* attempt only after a transient failure; after any other failure they
\* return their soft-fail value at once.
C15_RetryOnlyTransient ==
    (/\ retry.fn \in {"transcribe", "synthesize", "generateReply"}
     /\ retry.pc = "loop"
     /\ retry.outs # <<>>)
    => LastOutcome \in Transient

\* range(max_retries) of each function
RetryBound ==
    IF retry.fn = "generateReply" THEN gen_max_retries
    ELSE IF retry.fn = "analyze" THEN analyze_max_retries
    ELSE max_retries

\* the remote calls that gave the function its result
Successes == {"ok", "audio", "text", "json"}

\* what the function returns when it gives up
SoftFailed ==
    IF retry.fn = "transcribe" THEN retry.result.value = NoText
    ELSE IF retry.fn = "synthesize" THEN retry.result.value = NoAudio
    ELSE IF retry.fn = "generateReply"
    THEN retry.result.value = FALLBACKS(retry.language)
    ELSE /\ retry.result.value.intent = "No Response"
         /\ retry.result.value.sentiment = "Neutral"

\* C16: whatever the remote calls do, transcribe and synthesize make at
\* most max_retries (2) of them, generateReply at most 3 and
\* analyzeConversation at most 5, and have returned by then; the call
\* returns (no exception leaves it), and with the soft-fail value when
\* every remote call failed.  A call that makes no remote call is not the
\* subject.
C16_BoundedRetry ==
    /\ Len(retry.outs) <= RetryBound
    /\ Len(retry.outs) = RetryBound => retry.pc = "done"
    /\ (retry.pc = "done" /\ retry.outs # <<>>) =>
            /\ retry.result.kind = "return"
            /\ (\A i \in 1..Len(retry.outs) : retry.outs[i] \notin Successes)
                    => SoftFailed

\* analyzeConversation gave up after its fifth failed remote call
C16_Witness ==
    /\ retry.fn = "analyze"
    /\ retry.pc = "done"
    /\ Len(retry.outs) = analyze_max_retries
    /\ \A i \in 1..Len(retry.outs) : retry.outs[i] \notin Successes
    /\ retry.result.kind = "return"

(***************************************************************************)
(* SpecLive: a collaborator that never answers, and cancellation           *)
(***************************************************************************)
\* C17: a worker inside a collaborator call (transcribe, generateReply or
\* synthesize) is eventually back at its receive, or has left its loop,
\* even if the remote request never responds.
C17_StalledCallAbandoned ==
    \A w \in Workers :
        (wk[w].pc \in {"transcribe", "generate", "synthesize"})
            ~> (wk[w].pc \in {"recv", "closed"})

\* C18: once the completed event of its call has been handled
\* (handler.is_active is False), an attached worker reaches Closed,
\* whatever it is waiting for and with no further inbound message.
C18_CompletedStopsWorker ==
    \A w \in Workers :
        (Attached(w) /\ wk[w].handler # 0 /\ ~handlers[wk[w].handler].is_active)
            ~> (wk[w].pc = "closed")

(***************************************************************************)
(* Spec: the sessions' languages, and one session per call                 *)
(***************************************************************************)
\* C19: the current language and the preferred language of every
\* ConversationHandler are supported codes (en-IN, hi-IN, ta-IN), whatever
\* code came with the answer webhook and whatever was said since.
C19_LanguagesSupported ==
    \A i \in 1..Len(handlers) :
        /\ handlers[i].current_language \in Languages
        /\ handlers[i].preferred_language \in Languages

\* a call answered in English has switched to Hindi
C19_Witness ==
    \E i \in 1..Len(handlers) :
        /\ handlers[i].preferred_language = "en-IN"
        /\ handlers[i].current_language = "hi-IN"
        /\ handlers[i].language_history # <<>>

\* the positions from which the worker's next statement changes its handler
MutatingPcs == {"update_append", "update_assign", "add_user", "add_ai"}

\* C20: a worker about to change a session holds the session that the
\* registry has for its call id, whatever events came before (a second
\* answer webhook for the id included).
C20_OneSessionPerCall ==
    \A w \in Workers :
        (wk[w].pc \in MutatingPcs /\ call_data[wk[w].call_uuid] # 0)
            => call_data[wk[w].call_uuid] = wk[w].handler

(***************************************************************************)
(* Spec: the transcript only grows                                         *)
(***************************************************************************)
\* C21: every step of the webhooks and of the worker leaves each session's
\* transcript as it was or longer by entries appended at its end: the
\* transcript before the step is a prefix of the transcript after it.
C21_TranscriptAppendOnly ==
    [][\A i \in 1..Len(handlers) :
        LET old == handlers[i].conversation
            new == handlers'[i].conversation
        IN  /\ Len(new) >= Len(old)
            /\ SubSeq(new, 1, Len(old)) = old]_vars

\* a transcript of a greeting, the user's words and the reply
C21_Witness ==
    \E i \in 1..Len(handlers) :
        /\ Len(handlers[i].conversation) >= 3
        /\ handlers[i].conversation[2].speaker = "User"
        /\ handlers[i].conversation[3].speaker = "AI"

(***************************************************************************)
(* SpecRetry: inputs rejected before any remote call                       *)
(***************************************************************************)
\* C22: transcribe on audio of less than 0.3 s and synthesize on an empty
\* text return absent, and have sent no remote request.
C22_MalformedRejectedFirst ==
    /\ (/\ retry.fn = "transcribe"
        /\ retry.pc # "call"
        /\ Len(retry.audio_data) * 10 < 3 * SAMPLE_RATE * SAMPLE_WIDTH)
       => (/\ retry.pc = "done"
           /\ retry.outs = <<>>
           /\ retry.result = Returned(NoText))
    /\ (retry.fn = "synthesize" /\ retry.pc # "call" /\ retry.text = <<>>)
       => (/\ retry.pc = "done"
           /\ retry.outs = <<>>
           /\ retry.result = Returned(NoAudio))

\* transcribe was called with one sample of audio and has returned
C22_Witness ==
    /\ retry.fn = "transcribe"
    /\ retry.audio_data = QuietChunk
    /\ retry.pc = "done"
    /\ retry.outs = <<>>

(***************************************************************************)
(* SpecRetry: analyze_conversation_with_gemini always returns a record     *)
(***************************************************************************)
\* C23: whatever its remote calls do (an answer that parses, a rate limit,
\* another error, a text that does not parse), and with or without a
\* client, analyze_conversation_with_gemini returns a record and raises
\* nothing; every record other than the collaborator's own analysis has
\* intent "No Response".
C23_AnalysisNeverRaises ==
    (retry.fn = "analyze" /\ retry.pc = "done") =>
        /\ retry.result.kind = "return"
        /\ \/ /\ retry.outs # <<>>
              /\ LastOutcome = "json"
              /\ retry.result.value = WillPay
           \/ retry.result.value.intent = "No Response"

\* the fifth remote call failed after an earlier one gave a text that did
\* not parse: the raw-text record is returned
C23_Witness ==
    /\ retry.fn = "analyze"
    /\ retry.pc = "done"
    /\ Len(retry.outs) = analyze_max_retries
    /\ retry.outs[1] = "unparsed"
    /\ retry.outs[analyze_max_retries] = "error"
    /\ retry.result.value = RawAnalysis("Sure!")

(***************************************************************************)
(* SpecGate: the decision of add_chunk from the gate's state and the frame *)
(***************************************************************************)
\* the frame the step passes to add_chunk and the clock at that call
Frame == fed'[Len(fed')].chunk
FrameTime == fed'[Len(fed')].t

\* speech observed, this frame included
SpeechObserved == gate.speech_detected \/ rms_reaches_threshold(Frame)

\* how long the silence has lasted when a below-threshold frame arrives:
\* since the frame that started it, 0 if this frame starts it
SilenceHeld ==
    IF gate.silence_start = None THEN 0 ELSE FrameTime - gate.silence_start

\* bytes accumulated, this frame included; a second is SAMPLE_RATE * 2 bytes
Accumulated == Len(gate.buffer) + Len(Frame)

\* an above-threshold frame leaves no silence timer running
TimerReset == rms_reaches_threshold(Frame) => gate'.silence_start = None

TranscribeAbsent(w) ==
    \E outs \in SttRuns :
        /\ WsTranscribe(w, outs)
        /\ transcribe_sarvam(wk[w].audio_data,
                             handlers[wk[w].handler].current_language, outs) = NoText

\* C25: when the transcription of a taken utterance returns nothing, the
\* worker is back at ws.receive() in the same step, with the locals of the
\* iteration dead: no session changed (no transcript entry, no language, no
\* switch), nothing was written to any channel, and neither the reply
\* generation nor the synthesis, which come later in the iteration, ran.
C25_TranscriptionSoftFail ==
    [][\A w \in Workers :
            TranscribeAbsent(w) =>
                /\ wk'[w] = Idle(wk[w])
                /\ wk'[w].pc = "recv"
                /\ wk'[w].audio_buffer = wk[w].audio_buffer
                /\ handlers' = handlers
                /\ sent' = sent]_vars

\* connection w1 alone received one frame, an utterance that the gate
\* released, and is back at ws.receive() with the session as the greeting
\* left it: the transcription gave nothing
C25_Witness ==
    /\ wk["w1"].pc = "recv"
    /\ wk["w1"].audio_chunks_received = 1
    /\ nmsgs = 1
    /\ wk["w1"].audio_buffer.buffer = <<>>
    /\ wk["w2"].pc = "start"
    /\ Len(handlers[wk["w1"].handler].conversation) = 1
    /\ handlers[wk["w1"].handler].language_history = <<>>
    /\ Len(sent["w1"]) = 1

(***************************************************************************)
(* SpecPair: a turn whose synthesis gives nothing                          *)
(***************************************************************************)
\* the step of connection w in which synthesize_sarvam returns None
SynthesizeAbsent(w) ==
    \E outs \in TtsRuns :
        /\ WsSynthesize(w, outs)
        /\ synthesize_sarvam(wk[w].ai_response,
                             handlers[wk[w].handler].current_language, outs) = NoAudio

\* entry e is in the transcript of session h
InTranscript(e, h) == \E i \in 1..Len(h.conversation) : h.conversation[i] = e

\* C26: when the synthesis of a reply returns nothing, nothing is written
\* to any channel in that step, the worker is back at ws.receive() and not
\* closed, and the two entries the turn appended, the User entry with the
\* transcript and the AI entry with the reply, are in the session's
\* transcript.
C26_SynthesisSoftFail ==
    [][\A w \in Workers :
            SynthesizeAbsent(w) =>
                /\ sent' = sent
                /\ wk'[w] = Idle(wk[w])
                /\ wk'[w].pc = "recv"
                /\ wk'[w].exit = NoExit
                /\ Len(wk[w].turn.entries) = 2
                /\ wk[w].turn.entries[1].speaker = "User"
                /\ wk[w].turn.entries[1].text = wk[w].transcript
                /\ wk[w].turn.entries[2].speaker = "AI"
                /\ wk[w].turn.entries[2].text = wk[w].ai_response
                /\ \A i \in 1..2 :
                        InTranscript(wk[w].turn.entries[i],
                                     handlers'[wk[w].handler])]_vars

\* connection w1 alone received one frame, an utterance, and is back at
\* ws.receive() with the User and the AI entry after the greeting's and
\* nothing but the greeting on its channel: the synthesis gave nothing
C26_Witness ==
    /\ wk["w1"].pc = "recv"
    /\ wk["w1"].audio_chunks_received = 1
    /\ nmsgs = 1
    /\ wk["w2"].pc = "start"
    /\ Len(handlers[wk["w1"].handler].conversation) = 3
    /\ handlers[wk["w1"].handler].conversation[2].speaker = "User"
    /\ handlers[wk["w1"].handler].conversation[3].speaker = "AI"
    /\ Len(sent["w1"]) = 1

(***************************************************************************)
(* SpecPair: textual messages                                              *)
(***************************************************************************)
\* C27: a textual message whose event is stop closes the worker; every
\* other textual message (start, another event, an object without event,
\* text that is not JSON, JSON that is not an object) leaves the worker
\* with its gate, the sessions and the channels as they were, and the
\* worker is still at ws.receive().
C27_ControlMessages ==
    [][\A w \in Workers, message \in ControlTexts :
            WsReceiveText(w, message) =>
                IF message = StopText
                THEN wk'[w].pc = "closed"
                ELSE /\ wk'[w] = wk[w]
                     /\ handlers' = handlers
                     /\ call_data' = call_data
                     /\ sent' = sent]_vars

(***************************************************************************)
(* SpecEvents: two deliveries of the completed event of the call RegCall,  *)
(* in two threads: one taken one statement at a time (evt), the other      *)
(* running from its test to its return while the first is between two      *)
(* statements.  The call is unknown at first, or was answered before.      *)
(***************************************************************************)
EventsNext ==
    \/ EvTest
    \/ EvFetch
    \/ EvDeactivate
    \/ \E outs \in AnalyzeRuns, inserted \in BOOLEAN : EvSave(outs, inserted)
    \/ EvDel
    \/ EvUncache
    \/ \E outs \in AnalyzeRuns, inserted \in BOOLEAN : Completed(RegCall, outs, inserted)

SpecEvents == RegInit /\ [][EventsNext]_vars

\* C28: whatever the order of the statements of two deliveries of the
\* completed event of one call, save_transcript (analysis and persistence)
\* has run at most once on the call's session and no delivery has failed
\* with an error.
C28_FinalizedOnce ==
    /\ \A i \in 1..Len(handlers) :
            handlers[i].call_uuid = RegCall => handlers[i].saved <= 1
    /\ evt.error = ""

(***************************************************************************)
(* Spec: the worker of a finalized session                                 *)
(***************************************************************************)
\* the session of connection w has been through save_transcript
Finalized(w) ==
    /\ wk[w].handler # 0
    /\ handlers[wk[w].handler].saved > 0

\* C29: once the completed event has finalized the session of a worker,
\* no step appends an entry to the session's transcript, records a
\* language switch or changes its language, and the worker writes nothing
\* more to its channel.
C29_NoMutationAfterFinalized ==
    [][\A w \in Workers :
            Finalized(w) =>
                /\ handlers'[wk[w].handler].conversation =
                        handlers[wk[w].handler].conversation
                /\ handlers'[wk[w].handler].language_history =
                        handlers[wk[w].handler].language_history
                /\ handlers'[wk[w].handler].current_language =
                        handlers[wk[w].handler].current_language
                /\ sent'[w] = sent[w]]_vars

(***************************************************************************)
(* SpecPair: every received frame is in the gate or in a taken buffer      *)
(***************************************************************************)
\* the bytes in the AudioBuffer of connection w
Buffered(w) == wk[w].audio_buffer.buffer

\* C30, step by step: the step that receives a frame either leaves the
\* buffer longer by exactly that frame, at its end, or empties the buffer
\* and hands all of it, the frame last, to the transcription; every other
\* step, those of a turn in the pipeline included, leaves the AudioBuffer
\* as it is (no frame is added, dropped or evaluated).  By induction the
\* buffers taken so far followed by the current buffer are the frames
\* received, in their order.
C30_NoAudioLost ==
    [][\A w \in Workers :
            IF \E message \in WsChunks : WsReceiveBytes(w, message)
            THEN \E message \in WsChunks :
                    /\ WsReceiveBytes(w, message)
                    /\ \/ /\ wk'[w].pc = "recv"
                          /\ wk'[w].audio_buffer.buffer = Buffered(w) \o message
                       \/ /\ wk'[w].pc = "transcribe"
                          /\ wk'[w].audio_buffer.buffer = <<>>
                          /\ wk'[w].audio_data = Buffered(w) \o message
            ELSE wk'[w].audio_buffer = wk[w].audio_buffer]_vars

\* connection w1 received a quiet frame and then an utterance, and the
\* transcription is about to get both
C30_Witness ==
    /\ wk["w1"].pc = "transcribe"
    /\ wk["w1"].audio_chunks_received = 2
    /\ wk["w1"].audio_data = QuietChunk \o UtteranceChunk
    /\ wk["w1"].audio_buffer.buffer = <<>>

(***************************************************************************)
(* Spec: a connection for a call id the registry does not have             *)
(***************************************************************************)
\* C31: when a connection is opened for a call id that is not in
\* call_data, its handler returns at once and without an error: no session
\* is created, nothing is sent, the registry, the sessions and the greeting
\* cache are as before, and no other connection is touched.
C31_UnknownCallDropped ==
    [][\A w \in Workers, u \in CallIds :
            (WsConnect(w, u) /\ call_data[u] = 0) =>
                /\ wk'[w].pc = "closed"
                /\ wk'[w].exit = [kind |-> "unknown_call", error |-> ""]
                /\ wk'[w].handler = 0
                /\ handlers' = handlers
                /\ call_data' = call_data
                /\ greeting_cache' = greeting_cache
                /\ sent' = sent
                /\ \A o \in Workers \ {w} : wk'[o] = wk[o]]_vars

\* call-a is registered and served no less after the connection for the
\* unknown call-b was dropped: its completed event has been handled
C31_Witness ==
    /\ wk["w1"].exit.kind = "unknown_call"
    /\ wk["w1"].call_uuid = "call-b"
    /\ sent["w1"] = <<>>
    /\ Len(handlers) = 1
    /\ handlers[1].call_uuid = "call-a"
    /\ handlers[1].saved = 1
    /\ call_data["call-a"] = 0

(***************************************************************************)
(* SpecGate: frames that do not decode                                     *)
(***************************************************************************)
\* a frame of the same time with all samples zero
ZeroFrame == <<0, 0>>

\* the flag and the timer that add_chunk leaves after a zero-energy frame
AfterZeroEnergy == add_chunk(gate, ZeroFrame, FrameTime).self

\* C32: add_chunk of a frame with an odd byte count returns (True or
\* False), the buffer is longer by exactly the frame's bytes, and
\* speech_detected and silence_start are what a frame of zero energy at
\* the same time leaves: the flag unchanged, the timer started if speech
\* was seen and no timer ran, else unchanged.
C32_OddFrameIsSilence ==
    [][(ret' # "taken" /\ Len(Frame) % 2 = 1) =>
            /\ ret' \in {"true", "false"}
            /\ gate'.buffer = gate.buffer \o Frame
            /\ gate'.speech_detected = gate.speech_detected
            /\ gate'.speech_detected = AfterZeroEnergy.speech_detected
            /\ gate'.silence_start = AfterZeroEnergy.silence_start
            /\ gate'.silence_start =
                    IF gate.speech_detected /\ gate.silence_start = None
                    THEN FrameTime ELSE gate.silence_start]_vars

\* after speech, an odd frame whose first two bytes would decode to a loud
\* sample started the silence timer
C32_Witness ==
    /\ Len(fed) = 2
    /\ FedLoud(1)
    /\ fed[2].chunk = OddChunk
    /\ ret = "false"
    /\ gate.speech_detected
    /\ gate.silence_start = fed[2].t
    /\ gate.buffer = fed[1].chunk \o OddChunk

\* C33: add_chunk of a frame of zero bytes leaves the buffer as it was,
\* changes neither speech_detected nor silence_start, and returns False.
C33_EmptyFrameIgnored ==
    [][(ret' # "taken" /\ Frame = EmptyChunk) =>
            /\ gate'.buffer = gate.buffer
            /\ gate'.speech_detected = gate.speech_detected
            /\ gate'.silence_start = gate.silence_start
            /\ ret' = "false"]_vars

(***************************************************************************)
(* SpecReply: the guard against truncated replies                          *)
(***************************************************************************)
\* generate_ai_response returned the generator's text, post-processed
ReturnedReply ==
    /\ g_result.kind = "return"
    /\ g_outs # <<>>
    /\ g_outs[Len(g_outs)] = "text"

\* a text without its terminal punctuation mark
Unpunctuated(text) ==
    IF text # <<>> /\ text[Len(text)] \in valid_punctuations
    THEN rstrip(SubSeq(text, 1, Len(text) - 1))
    ELSE text

EndsDangling(text) ==
    \E i \in 1..Len(unwanted_endings) : endswith(lower(text), unwanted_endings[i])

\* C34: whatever text the generator gives, the reply returned, without its
\* terminal punctuation mark, ends in none of the eight guarded tokens.
C34_NoDanglingToken ==
    ReturnedReply => ~EndsDangling(Unpunctuated(g_result.text))

(***************************************************************************)
(* SpecGate: the size of what get_audio returns                            *)
(***************************************************************************)
\* C35: the bytes get_audio returns are at most max_buffer_size
\* (8 seconds) plus the last frame fed, whatever frames came before the
\* first loud one.
C35_UtteranceSizeCap ==
    ret = "taken" =>
        Len(g_audio_data) <= max_buffer_size + Len(fed[Len(fed)].chunk)

(***************************************************************************)
(* Spec: the language history as a chain                                   *)
(***************************************************************************)
\* language_history leads from the preferred to the current language
ChainOk(preferred, current, history) ==
    /\ \A i \in 1..Len(history) : history[i].from # history[i].to
    /\ history = <<>> => current = preferred
    /\ history # <<>> =>
            /\ history[1].from = preferred
            /\ history[Len(history)].to = current
    /\ \A i \in 2..Len(history) : history[i].from = history[i - 1].to

\* a worker is between the statements of update_language on session i
InUpdate(i) ==
    \E w \in Workers :
        wk[w].handler = i /\ wk[w].pc \in {"update_append", "update_assign"}

\* C36: the switch records of every session form a chain from its
\* preferred to its current language with from # to in each record,
\* whenever no worker is inside update_language on it; and so do the
\* language_history and final_language of every persisted record.
C36_LanguageChain ==
    /\ \A i \in 1..Len(handlers) :
            ~InUpdate(i) =>
                ChainOk(handlers[i].preferred_language,
                        handlers[i].current_language,
                        handlers[i].language_history)
    /\ \A j \in 1..Len(call_sessions) :
            ChainOk(call_sessions[j].preferred_language,
                    call_sessions[j].final_language,
                    call_sessions[j].language_history)

(***************************************************************************)
(* Spec: the shape of a transcript at rest                                 *)
(***************************************************************************)
\* the greeting's AI entry, then (User, AI) pairs
GreetingThenPairs(self) ==
    LET conversation == self.conversation
    IN  /\ Len(conversation) % 2 = 1
        /\ conversation[1].speaker = "AI"
        /\ conversation[1].text = greeting(self.preferred_language)
        /\ \A i \in 2..Len(conversation) :
                conversation[i].speaker = IF i % 2 = 0 THEN "User" ELSE "AI"

\* C37: whenever a worker with a session is at ws.receive() or has ended,
\* the session's transcript is the greeting's AI entry followed by
\* (User, AI) pairs: no User entry is without the AI entry answering it.
C37_TranscriptShape ==
    \A w \in Workers :
        (wk[w].pc \in {"recv", "closed"} /\ wk[w].handler # 0) =>
            GreetingThenPairs(handlers[wk[w].handler])

(***************************************************************************)
(* SpecRegistry: the greeting cache and the registry                       *)
(***************************************************************************)
\* neither webhook is between two of its statements
WebhooksAtRest == ans.pc \in {"start", "done"} /\ evt.pc \in {"start", "done"}

\* C38: whenever no answer webhook and no completed event of the call is
\* in progress, a greeting is cached for the call only if the call is in
\* call_data; so after the completed event and an overlapping answer
\* webhook have both finished, no cached greeting is left.
C38_GreetingCacheWithCall ==
    WebhooksAtRest =>
        (greeting_cache[RegCall] # NoAudio => call_data[RegCall] # 0)

(***************************************************************************)
(* SpecLive: a call that ends without a completed event                    *)
(***************************************************************************)
\* C39: when the worker of a call has ended (the channel closed, a stop
\* message, or an error), the call's session is eventually out of
\* call_data, whether or not a completed event is ever delivered.
C39_SessionsDoNotLeak ==
    \A w \in Workers, u \in CallIds :
        (wk[w].pc = "closed" /\ wk[w].handler # 0 /\ wk[w].call_uuid = u)
            ~> (call_data[u] = 0)

=============================================================================
